---------------------------- MODULE Spec2Model ----------------------------
(***************************************************************************)
(* BoincHub account manager: the protocol request handler (rpc ->          *)
(* BoincService.process_request -> _process_projects), the computer        *)
(* upsert, the preference-group default lookup and the user credential     *)
(* operations, over the rows of the database.                              *)
(*                                                                         *)
(* Strings are sequences of one-character strings, so that lower(),        *)
(* strip(), len(), concatenation and the test '"_" in key' are computed.   *)
(* An optional value (Python's None) is the empty set, a present value x   *)
(* is the set {x}.                                                         *)
(***************************************************************************)
EXTENDS Integers, Sequences, FiniteSets, TLC

VARIABLES
    users,        \* rows of table users
    computers,    \* rows of table computers
    projects,     \* rows of table projects
    keys,         \* rows of table user_project_keys (account_key as stored: ciphertext)
    attachments,  \* rows of table project_attachments
    groups,       \* rows of table preference_groups
    last,         \* the last operation handled: its input, the database before it, its result
    threads,      \* the requests being handled concurrently, each with its session
    sessions,     \* rows of table user_sessions
    invite_codes, \* rows of table invite_codes
    now,          \* the clock: datetime.now(UTC), time.time()
    clients       \* RateLimitMiddleware.clients: the arrival times kept for each address

\* What the account manager protocol and the group, user and key calls leave alone
others == <<sessions, invite_codes, now, clients>>

vars == <<users, computers, projects, keys, attachments, groups, last, threads, others>>

None == {}
Some(x) == {x}
The(s) == CHOOSE x \in s : TRUE

-----------------------------------------------------------------------------
(* Bounds of the model *)

MaxComputers == 2
MaxUsers == 2
MaxGroups == 3

-----------------------------------------------------------------------------
(* Strings *)

EmptyStr == << >>

LowerChar(c) ==
    CASE c = "A" -> "a"
      [] c = "B" -> "b"
      [] c = "C" -> "c"
      [] OTHER -> c

\* str.lower()
Lower(s) == [i \in DOMAIN s |-> LowerChar(s[i])]

RECURSIVE LStrip(_)
LStrip(s) == IF s # << >> /\ Head(s) = " " THEN LStrip(Tail(s)) ELSE s

RECURSIVE RStrip(_)
RStrip(s) == IF s # << >> /\ s[Len(s)] = " " THEN RStrip(SubSeq(s, 1, Len(s) - 1)) ELSE s

\* str.strip()
Strip(s) == RStrip(LStrip(s))

\* "c" in s
Contains(s, c) == \E i \in DOMAIN s : s[i] = c

-----------------------------------------------------------------------------
(* Credential subsystem *)

\* hashlib.md5(f"{password}{username.lower()}").hexdigest(): the digest is modelled
\* as its preimage, the concatenation (MD5 taken as collision-free on it).
hash_boinc_password_case_kept(username, password) == password \o username

hash_boinc_password(username, password) == password \o Lower(username)

\* Argon2: the hash is modelled as the tagged password; the salt is left out, it
\* decides no comparison but verify's.
hash_password(password) == <<"$argon2id$">> \o password

verify_password(password, password_hash) == password_hash = hash_password(password)

\* The master key the process runs with, and one it does not (a rotated or foreign key).
MasterKey == "mk-current"
ForeignKey == "mk-foreign"

\* A stored ciphertext is a sequence of symbols, each a tuple of strings: <<c>> is
\* the character c of the base64 text.
Symbols(str) == [i \in 1..Len(str) |-> <<str[i]>>]

\* Fernet(key).encrypt(data): the token names its key, carries the data and ends
\* with the HMAC of both under the key, written as the one symbol <<key>> \o data.
fernet_encrypt(key, data) == <<(<<key>>)>> \o Symbols(data) \o <<(<<key>>) \o data>>

\* Fernet(key).decrypt(token): the data, or None where it raises InvalidToken (a
\* token of another key, or one whose HMAC does not match what it carries).
fernet_decrypt(key, token) ==
    IF Len(token) < 2 THEN None
    ELSE LET carried == SubSeq(token, 2, Len(token) - 1)
             data == [i \in 1..Len(carried) |-> carried[i][1]]
         IN IF /\ Head(token) = <<key>>
               /\ \A i \in 1..Len(carried) : Len(carried[i]) = 1
               /\ token[Len(token)] = <<key>> \o data
            THEN Some(data)
            ELSE None

\* Characters outside the base64 alphabet
NonAlphabet == {<<"\n">>, <<"!">>}

IsAlphabet(symbol) == symbol \notin NonAlphabet

\* base64.urlsafe_b64decode(s): validate is off, so characters that are not of the
\* alphabet are discarded before decoding.
urlsafe_b64decode(s) == SelectSeq(s, IsAlphabet)

encrypt_account_key(plaintext_key) ==
    IF plaintext_key = EmptyStr THEN EmptyStr ELSE fernet_encrypt(MasterKey, plaintext_key)

\* "except Exception: return ''" answers whatever the decoding or Fernet raises.
decrypt_account_key(encrypted_key) ==
    IF encrypted_key = EmptyStr THEN EmptyStr
    ELSE LET decrypted == fernet_decrypt(MasterKey, urlsafe_b64decode(encrypted_key))
         IN IF decrypted = None THEN EmptyStr ELSE The(decrypted)

\* EncryptedAccountKey.process_result_value: the value the ORM hands to the code.
process_result_value(value) ==
    IF value = EmptyStr THEN EmptyStr ELSE decrypt_account_key(value)

\* EncryptedAccountKey.process_bind_param
process_bind_param(value) ==
    IF value = EmptyStr THEN EmptyStr ELSE encrypt_account_key(value)

-----------------------------------------------------------------------------
(* Version gate.  A version string is the sequence of its dot-separated     *)
(* components; a component that is not a number is written -1.              *)

IsNumber(x) == x >= 0

\* packaging.version.parse inside try/except: the release tuple, or None when the
\* string is no version (InvalidVersion is caught).
parse_client_version(version_str) ==
    IF version_str # << >> /\ \A i \in DOMAIN version_str : IsNumber(version_str[i])
    THEN Some(version_str)
    ELSE None

Component(v, i) == IF i <= Len(v) THEN v[i] ELSE 0

RECURSIVE VersionLessFrom(_, _, _)
VersionLessFrom(a, b, i) ==
    IF i > Len(a) /\ i > Len(b) THEN FALSE
    ELSE IF Component(a, i) # Component(b, i) THEN Component(a, i) < Component(b, i)
    ELSE VersionLessFrom(a, b, i + 1)

\* Version.__lt__ on releases: missing components count as 0.
VersionLess(a, b) == VersionLessFrom(a, b, 1)

\* version.parse("6.13.0") and version.parse("7.0.0")
WeakKeyVersion == <<6, 13, 0>>
MultiResourceVersion == <<7, 0, 0>>

-----------------------------------------------------------------------------
(* Wire protocol *)

ERR_XML_PARSE == -112
ERR_BAD_USER_NAME == -188
ERR_BAD_PASSWD == -206
\* rpc's "except Exception" branch
INTERNAL_ERROR == -1

\* Account(url, url_signature, authenticator, ...) with every optional element None
Account(url, url_signature, authenticator) ==
    [url |-> url, url_signature |-> url_signature, authenticator |-> authenticator,
     detach |-> None, resource_share |-> None, suspend |-> None,
     dont_request_more_work |-> None, detach_when_done |-> None,
     no_cpu |-> None, no_cuda |-> None, no_ati |-> None, no_rsc |-> << >>,
     update |-> None, abort_not_started |-> None]

create_detach_account_with_settings(project) ==
    Some([Account(project.url, project.signed_url, EmptyStr)
            EXCEPT !.detach = Some(TRUE), !.suspend = Some(FALSE),
                   !.resource_share = Some(100)])

create_detach_account(project) ==
    Some([Account(project.url, project.signed_url, EmptyStr) EXCEPT !.detach = Some(TRUE)])

\* The weak-key gate of create_attach_account.
is_too_old_for_weak_key_inclusive(client_version) ==
    client_version = None \/ ~VersionLess(WeakKeyVersion, The(client_version))

is_too_old_for_weak_key(client_version) ==
    client_version = None \/ VersionLess(The(client_version), WeakKeyVersion)

SelectSeq2(flags, names) ==
    LET F[i \in 0..Len(flags)] ==
            IF i = 0 THEN << >>
            ELSE IF flags[i] THEN Append(F[i - 1], names[i]) ELSE F[i - 1]
    IN F[Len(flags)]

resource_restrictions_unparsed_as_newest(account, attachment, client_version) ==
    IF client_version = None \/ ~VersionLess(The(client_version), MultiResourceVersion)
    THEN [account EXCEPT !.no_rsc =
            SelectSeq2(<<attachment.no_cpu, attachment.no_gpu_nvidia,
                         attachment.no_gpu_amd, attachment.no_gpu_intel>>,
                       <<"CPU", "NVIDIA", "ATI", "intel_gpu">>)]
    ELSE [account EXCEPT
            !.no_cpu = IF attachment.no_cpu THEN Some(TRUE) ELSE None,
            !.no_cuda = IF attachment.no_gpu_nvidia THEN Some(TRUE) ELSE None,
            !.no_ati = IF attachment.no_gpu_amd THEN Some(TRUE) ELSE None]

\* The resource restrictions of create_attach_account, in the dialect of the client.
resource_restrictions(account, attachment, client_version) ==
    IF client_version # None /\ ~VersionLess(The(client_version), MultiResourceVersion)
    THEN [account EXCEPT !.no_rsc =
            SelectSeq2(<<attachment.no_cpu, attachment.no_gpu_nvidia,
                         attachment.no_gpu_amd, attachment.no_gpu_intel>>,
                       <<"CPU", "NVIDIA", "ATI", "intel_gpu">>)]
    ELSE [account EXCEPT
            !.no_cpu = IF attachment.no_cpu THEN Some(TRUE) ELSE None,
            !.no_cuda = IF attachment.no_gpu_nvidia THEN Some(TRUE) ELSE None,
            !.no_ati = IF attachment.no_gpu_amd THEN Some(TRUE) ELSE None]

\* None when the key is weak and the client too old for it, else the attach account.
create_attach_account(project, account_key, attachment, client_version) ==
    IF Contains(account_key, "_") /\ is_too_old_for_weak_key(client_version)
    THEN None
    ELSE Some([resource_restrictions(
                   [Account(project.url, project.signed_url, account_key)
                      EXCEPT !.resource_share = Some(attachment.resource_share)],
                   attachment, client_version)
               EXCEPT !.suspend = Some(attachment.suspended),
                      !.dont_request_more_work = Some(attachment.dont_request_more_work),
                      !.detach_when_done = Some(attachment.detach_when_done)])

attachment_settings_changed(account_key, attachment, client_project) ==
    \/ Some(account_key) # client_project.account_key
    \/ attachment.resource_share # client_project.resource_share
    \/ attachment.suspended # client_project.suspended_via_gui
    \/ attachment.dont_request_more_work # client_project.dont_request_more_work
    \/ attachment.detach_when_done # client_project.detach_when_done

-----------------------------------------------------------------------------
(* The database: one record of the six tables.  A row is a record; a       *)
(* primary key is the field id, or (computer_id, project_id) for an         *)
(* attachment and (user_id, project_id) for a key.                          *)

UserIds == 1..MaxUsers
ComputerIds == 1..MaxComputers
GroupIds == 1..MaxGroups
ProjectIds == {1, 2}

DB == [users |-> users, computers |-> computers, projects |-> projects,
       keys |-> keys, attachments |-> attachments, groups |-> groups]

\* The least id of ids that no row of rows has: the next uuid4(), or None when the
\* model has no id left.
FreshId(ids, rows) ==
    LET free == {i \in ids : \A r \in rows : r.id # i}
    IN IF free = {} THEN None ELSE Some(CHOOSE i \in free : \A j \in free : i <= j)

\* UniqueConstraint("user_id", "cpid") of table computers
ComputerConstraint(rows) ==
    \A a, b \in rows : (a.user_id = b.user_id /\ a.cpid = b.cpid) => a = b

-----------------------------------------------------------------------------
(* UserService *)

get_by_username(db, username) == {u \in db.users : u.username = username}

authenticate_boinc_client(db, username, boinc_password_hash) ==
    {u \in get_by_username(db, username) :
        u.is_active /\ u.boinc_password_hash = boinc_password_hash}

-----------------------------------------------------------------------------
(* ComputerService *)

get_computer(db, computer_id) == {c \in db.computers : c.id = computer_id}

\* select(Computer).where(Computer.cpid == cpid).first(): the query names no order
\* and no owner, so first() is any of the rows with that CPID; the set of the
\* results it can give.
get_computer_by_cpid(db, cpid) ==
    LET rows == {c \in db.computers : c.cpid = cpid}
    IN IF rows = {} THEN {None} ELSE {Some(c) : c \in rows}

\* What the lookups of update_or_create_computer_from_request decide: the computer
\* to update (None: create one) and whether its cpid is assigned.
Found(computer, set_cpid) == [target |-> Some(computer.id), set_cpid |-> set_cpid]

NotFound == [target |-> None, set_cpid |-> FALSE]

\* "if request.previous_host_cpid:" and the fall-through to create
by_previous_cpid(db, user, request) ==
    IF request.previous_host_cpid # ""
    THEN {IF found # None /\ The(found).user_id = user.id THEN Found(The(found), TRUE) ELSE NotFound
          : found \in get_computer_by_cpid(db, request.previous_host_cpid)}
    ELSE {NotFound}

\* "computer = self.get_computer_by_cpid(request.host_cpid)"
by_cpid(db, user, request) ==
    UNION {IF found # None /\ The(found).user_id = user.id
           THEN {Found(The(found), FALSE)}
           ELSE by_previous_cpid(db, user, request)
           : found \in get_computer_by_cpid(db, request.host_cpid)}

\* find_computer without "computer.user_id == user.id" in the uuid lookup
find_computer_of_any_owner(db, user, request) ==
    LET by_uuid == IF request.uuid # None THEN get_computer(db, The(request.uuid)) ELSE {}
    IN IF by_uuid # {} THEN {Found(The(by_uuid), TRUE)} ELSE by_cpid(db, user, request)

\* "if request.uuid:" and what follows when it finds nothing of the user's
find_computer(db, user, request) ==
    LET by_uuid == IF request.uuid # None
                   THEN {c \in get_computer(db, The(request.uuid)) : c.user_id = user.id}
                   ELSE {}
    IN IF by_uuid # {} THEN {Found(The(by_uuid), TRUE)} ELSE by_cpid(db, user, request)

\* db.add(computer); db.commit(): the row written, or IntegrityError when the
\* unique constraint refuses it (the transaction is rolled back).  [db, computer, error]
commit_computer(db, new) ==
    LET rows == {c \in db.computers : c.id # new.id} \cup {new}
    IN IF ComputerConstraint(rows)
       THEN [db |-> [db EXCEPT !.computers = rows], computer |-> Some(new.id), error |-> FALSE]
       ELSE [db |-> db, computer |-> None, error |-> TRUE]

\* create_computer(ComputerCreate(cpid, hostname, user_id)); no outcome when the
\* model has no id left.
create_computer(db, user, request) ==
    LET id == FreshId(ComputerIds, db.computers)
    IN IF \E c \in db.computers : c.user_id = user.id /\ c.cpid = request.host_cpid
       THEN {[db |-> db, computer |-> None, error |-> TRUE]}
       ELSE IF id = None THEN {}
       ELSE {commit_computer(db, [id |-> The(id), user_id |-> user.id,
                                  cpid |-> request.host_cpid,
                                  hostname |-> request.domain_name,
                                  preference_group_id |-> None])}

\* The assignments and the commit that follow a lookup
write_computer(db, user, request, found) ==
    IF found.target = None
    THEN create_computer(db, user, request)
    ELSE LET row == The(get_computer(db, The(found.target)))
         IN {commit_computer(db, [row EXCEPT
                                    !.cpid = IF found.set_cpid THEN request.host_cpid ELSE @,
                                    !.hostname = request.domain_name])}

\* The outcomes of the upsert: [db, computer, error].
update_or_create_computer_from_request(db, user, request) ==
    UNION {write_computer(db, user, request, found) : found \in find_computer(db, user, request)}

-----------------------------------------------------------------------------
(* PreferenceGroupService *)

get_by_name(db, name, user_id) == {g \in db.groups : g.name = name /\ g.user_id = user_id}

DefaultName == "Default"

\* create(PreferenceGroupCreate(name="Default", is_default=True)): HTTPException when
\* a global group of that name exists, else the new row.  No default exists when
\* get_default calls it, so _unset_existing_default finds nothing.
create_default_group(db) ==
    LET id == FreshId(GroupIds, db.groups)
    IN IF get_by_name(db, DefaultName, None) # {}
       THEN {[db |-> db, group |-> None, error |-> TRUE]}
       ELSE IF id = None THEN {}
       ELSE {[db |-> [db EXCEPT !.groups = @ \cup {[id |-> The(id), user_id |-> None,
                                                     name |-> DefaultName,
                                                     is_default |-> TRUE]}],
              group |-> id, error |-> FALSE]}

\* The outcomes of get_default(user_id): [db, group, error].
get_default(db, user_id) ==
    LET user_defaults == {g \in db.groups : g.is_default /\ g.user_id = Some(user_id)}
        global_defaults == {g \in db.groups : g.is_default /\ g.user_id = None}
    IN IF user_defaults # {}
       THEN {[db |-> db, group |-> Some(g.id), error |-> FALSE] : g \in user_defaults}
       ELSE IF global_defaults # {}
       THEN {[db |-> db, group |-> Some(g.id), error |-> FALSE] : g \in global_defaults}
       ELSE create_default_group(db)

-----------------------------------------------------------------------------
(* BoincService._process_projects *)

\* project_service.get_enabled(...): enabled_project_map.get(project_id)
enabled_project(db, project_id) == {p \in db.projects : p.enabled /\ p.id = project_id}

\* attachment.project: the row the foreign key names, enabled or not
attachment_project(db, attachment) == {p \in db.projects : p.id = attachment.project_id}

project_by_url(db, url) == {p \in db.projects : p.url = url}

\* key_service.get_by_user(user.id): key_map.get(project_id), the row as the ORM
\* loads it (account_key decrypted by process_result_value).
user_key(db, user_id, project_id) ==
    {[k EXCEPT !.account_key = process_result_value(k.account_key)] :
        k \in {r \in db.keys : r.user_id = user_id /\ r.project_id = project_id}}

\* attachment_service.get_by_computer(computer.id), in the order of the project ids
current_attachments(db, computer_id) ==
    LET rows == {a \in db.attachments : a.computer_id = computer_id}
        F[n \in 0..Cardinality(ProjectIds)] ==
            IF n = 0 THEN << >>
            ELSE LET row == {a \in rows : a.project_id = n}
                 IN IF row = {} THEN F[n - 1] ELSE Append(F[n - 1], The(row))
    IN F[Cardinality(ProjectIds)]

\* client_projects = {p.url: p for p in request.projects}; client_projects.get(url):
\* the last entry of that URL
client_project(request, url) ==
    LET at == {i \in DOMAIN request.projects : request.projects[i].url = url}
    IN IF at = {} THEN None
       ELSE Some(request.projects[CHOOSE i \in at : \A j \in at : j <= i])

\* "if not key": key is the row key_map.get gives or None, and a row is truthy
\* whatever its account_key.
key_missing(key) == key = None

\* "if account.authenticator == client_project.account_key": the authenticator is
\* cleared when the client already holds that key.
clear_known_authenticator(account, client_proj) ==
    IF account # None /\ Some(The(account).authenticator) = client_proj.account_key
    THEN Some([The(account) EXCEPT !.authenticator = EmptyStr])
    ELSE account

\* One iteration of "for attachment in current_attachments" is the account appended
\* (None when none is) and whether attachment_service.delete is called.

detach_and_keep(project) ==
    [account |-> create_detach_account(project), delete |-> FALSE]

\* The branches "if not project" and "if not key"
detach_and_delete(project) ==
    [account |-> create_detach_account(project), delete |-> TRUE]

not_reported_always_deleted(project, key, attachment, client_version) ==
    [account |-> None, delete |-> TRUE]

not_reported_detach_sent(project, key, attachment, client_version) ==
    IF attachment.detach_when_done
    THEN [account |-> create_detach_account(project), delete |-> TRUE]
    ELSE [account |-> create_attach_account(project, key.account_key, attachment, client_version),
          delete |-> FALSE]

\* The branch "if not client_project"
not_reported(project, key, attachment, client_version) ==
    IF attachment.detach_when_done
    THEN [account |-> None, delete |-> TRUE]
    ELSE [account |-> create_attach_account(project, key.account_key, attachment, client_version),
          delete |-> FALSE]

reported_by_client_skipping_unchanged(project, key, attachment, client_proj, client_version) ==
    IF attachment_settings_changed(key.account_key, attachment, client_proj)
    THEN [account |-> clear_known_authenticator(
                          create_attach_account(project, key.account_key, attachment,
                                                client_version),
                          client_proj),
          delete |-> FALSE]
    ELSE [account |-> None, delete |-> FALSE]

\* The branches "elif attachment_settings_changed(...)" and "else": the same statements
reported_by_client(project, key, attachment, client_proj, client_version) ==
    [account |-> clear_known_authenticator(
                     create_attach_account(project, key.account_key, attachment, client_version),
                     client_proj),
     delete |-> FALSE]

process_attachment(db, user, attachment, request) ==
    LET project == enabled_project(db, attachment.project_id)
        key == IF project = None THEN None ELSE user_key(db, user.id, The(project).id)
        client_proj == IF project = None THEN None ELSE client_project(request, The(project).url)
        client_version == parse_client_version(request.client_version)
    IN IF project = None
       THEN detach_and_delete(The(attachment_project(db, attachment)))
       ELSE IF key_missing(key)
       THEN detach_and_delete(The(project))
       ELSE IF client_proj = None
       THEN not_reported(The(project), The(key), attachment, client_version)
       ELSE IF attachment_settings_changed(The(key).account_key, attachment, The(client_proj))
       THEN reported_by_client(The(project), The(key), attachment, The(client_proj), client_version)
       ELSE reported_by_client(The(project), The(key), attachment, The(client_proj), client_version)

\* The first loop of _process_projects: the detach accounts it builds for the
\* projects the client reports and the computer is not attached to.  The loop
\* assigns each to a local and appends none.
client_only_detaches(db, computer_id, request) ==
    LET attached == {a.project_id : a \in {r \in db.attachments : r.computer_id = computer_id}}
        F[n \in 0..Len(request.projects)] ==
            IF n = 0 THEN << >>
            ELSE LET project == project_by_url(db, request.projects[n].url)
                 IN IF project # None /\ The(project).id \notin attached
                    THEN F[n - 1] \o <<The(create_detach_account(The(project)))>>
                    ELSE F[n - 1]
    IN F[Len(request.projects)]

process_projects_deleting_nothing(db, user, computer_id, request) ==
    LET todo == current_attachments(db, computer_id)
        step(n) == process_attachment(db, user, todo[n], request)
        accounts[n \in 0..Len(todo)] ==
            IF n = 0 THEN << >>
            ELSE IF step(n).account = None THEN accounts[n - 1]
            ELSE Append(accounts[n - 1], The(step(n).account))
    IN [db |-> db, accounts |-> accounts[Len(todo)], deleted |-> {}]

\* _process_projects with every delete committed as it is made: [db, accounts, deleted].
\* The maps are loaded before the loop, so one iteration's delete changes no other's.
process_projects(db, user, computer_id, request) ==
    LET todo == current_attachments(db, computer_id)
        step(n) == process_attachment(db, user, todo[n], request)
        accounts[n \in 0..Len(todo)] ==
            IF n = 0 THEN << >>
            ELSE IF step(n).account = None THEN accounts[n - 1]
            ELSE Append(accounts[n - 1], The(step(n).account))
        deleted == {todo[n] : n \in {i \in DOMAIN todo : step(i).delete}}
    IN [db |-> [db EXCEPT !.attachments = @ \ deleted],
        accounts |-> accounts[Len(todo)],
        deleted |-> deleted]

-----------------------------------------------------------------------------
(* BoincService.process_request and the rpc endpoint *)

RepeatSec == 3600

NoReply ==
    [error_num |-> None, repeat_sec |-> None, global_preferences |-> None,
     accounts |-> << >>, uuid |-> None]

ErrorReply(error_num) == [NoReply EXCEPT !.error_num = Some(error_num)]

\* An outcome of process_request: the database it leaves, the reply it returns (or
\* raised = TRUE when it raises instead), the computer it resolved and the
\* attachments it deleted.
Returned(db, reply) ==
    [db |-> db, reply |-> reply, raised |-> FALSE, computer |-> None, deleted |-> {}]

Raised(db) ==
    [db |-> db, reply |-> NoReply, raised |-> TRUE, computer |-> None, deleted |-> {}]

\* "if not computer.preference_group": bind the default group.  [db, error]
bind_preference_group(db, user, computer_id) ==
    LET computer == The(get_computer(db, computer_id))
    IN IF computer.preference_group_id # None
       THEN {[db |-> db, error |-> FALSE]}
       ELSE {IF d.error
             THEN [db |-> d.db, error |-> TRUE]
             ELSE [db |-> [d.db EXCEPT !.computers =
                              (@ \ {computer}) \cup
                              {[computer EXCEPT !.preference_group_id = d.group]}],
                   error |-> FALSE]
             : d \in get_default(db, user.id)}

\* build_global_preferences(computer.preference_group): the group the reply's
\* preferences are built from
build_global_preferences(db, computer_id) ==
    The(get_computer(db, computer_id)).preference_group_id

reconcile(db, user, computer_id, request) ==
    LET done == process_projects(db, user, computer_id, request)
    IN [db |-> done.db,
        reply |-> [error_num |-> None, repeat_sec |-> Some(RepeatSec),
                   global_preferences |-> build_global_preferences(db, computer_id),
                   accounts |-> done.accounts,
                   uuid |-> Some(computer_id)],
        raised |-> FALSE, computer |-> Some(computer_id), deleted |-> done.deleted]

\* process_request with the computer record written before the password is
\* checked
process_request_upserting_first(db, request) ==
    IF get_by_username(db, request.name) = {}
    THEN {Returned(db, ErrorReply(ERR_BAD_USER_NAME))}
    ELSE LET named == The(get_by_username(db, request.name))
         IN {IF u.error
             THEN Raised(u.db)
             ELSE IF authenticate_boinc_client(db, request.name, request.password_hash) = {}
             THEN Returned(u.db, ErrorReply(ERR_BAD_PASSWD))
             ELSE reconcile(u.db, named, The(u.computer), request)
             : u \in update_or_create_computer_from_request(db, named, request)}

\* The outcomes of process_request(request) on db.
process_request(db, request) ==
    IF get_by_username(db, request.name) = {}
    THEN {Returned(db, ErrorReply(ERR_BAD_USER_NAME))}
    ELSE LET found == authenticate_boinc_client(db, request.name, request.password_hash)
         IN IF found = {}
            THEN {Returned(db, ErrorReply(ERR_BAD_PASSWD))}
            ELSE UNION {IF u.error
                        THEN {Raised(u.db)}
                        ELSE {IF g.error
                              THEN Raised(g.db)
                              ELSE reconcile(g.db, The(found), The(u.computer), request)
                              : g \in bind_preference_group(u.db, The(found), The(u.computer))}
                        : u \in update_or_create_computer_from_request(db, The(found), request)}

\* AccountManagerRequest.from_xml(body): what it raises, "" when it returns the
\* request.  A body is [xml, request]: xml tells whether the text is well-formed XML
\* and whether the required elements are there.
from_xml(body) ==
    CASE body.xml = "malformed" -> "XMLSyntaxError"
      [] body.xml = "incomplete" -> "ValidationError"
      [] OTHER -> ""

\* The except clauses of rpc: the reply for what was raised.
exception_reply(raised) ==
    IF raised = "ValidationError" THEN ErrorReply(ERR_XML_PARSE) ELSE ErrorReply(INTERNAL_ERROR)

\* The outcomes of rpc on a request body.
rpc(db, body) ==
    IF from_xml(body) # ""
    THEN {[Returned(db, exception_reply(from_xml(body))) EXCEPT !.raised = TRUE]}
    ELSE {IF o.raised THEN [o EXCEPT !.reply = exception_reply("Exception")] ELSE o
          : o \in process_request(db, body.request)}

-----------------------------------------------------------------------------
(* The rest of the API, as far as it writes the rows the protocol reads *)

\* project_service.update(project_id, ProjectUpdate(enabled=...))
update_project(db, project_id, enabled) ==
    [db EXCEPT !.projects = {IF p.id = project_id THEN [p EXCEPT !.enabled = enabled] ELSE p
                             : p \in @}]

\* POST /user_project_keys/me: refused unless the project is enabled and the key,
\* stripped, is not empty; then create_or_update_by_user_project.
create_or_update_user_project_key(db, user_id, project_id, account_key) ==
    IF enabled_project(db, project_id) = None \/ Strip(account_key) = EmptyStr
    THEN db
    ELSE [db EXCEPT !.keys =
            {k \in @ : ~(k.user_id = user_id /\ k.project_id = project_id)} \cup
            {[user_id |-> user_id, project_id |-> project_id,
              account_key |-> process_bind_param(Strip(account_key))]}]

\* DELETE /user_project_keys/me/{project_id}
delete_user_project_key(db, user_id, project_id) ==
    [db EXCEPT !.keys = {k \in @ : ~(k.user_id = user_id /\ k.project_id = project_id)}]

\* The process restarted with another settings.master_encryption_key: the rows
\* written before are ciphertexts of a key it no longer has.
rotate_master_key(db) ==
    [db EXCEPT !.keys = {IF decrypt_account_key(k.account_key) = EmptyStr THEN k
                         ELSE [k EXCEPT !.account_key =
                                   fernet_encrypt(ForeignKey, decrypt_account_key(@))]
                         : k \in @}]

\* "if not user_project_key or not user_project_key.account_key"
key_missing_or_empty(key) == key = None \/ The(key).account_key = EmptyStr

\* POST /project_attachments: refused unless the computer is the user's, the project
\* is enabled and the user has a key for it that is not empty; the unique
\* constraint (computer_id, project_id) refuses a second row.
create_project_attachment(db, user_id, computer_id, project_id, settings) ==
    LET key == user_key(db, user_id, project_id)
    IN IF \/ {c \in get_computer(db, computer_id) : c.user_id = user_id} = {}
          \/ enabled_project(db, project_id) = None
          \/ key_missing_or_empty(key)
          \/ \E a \in db.attachments : a.computer_id = computer_id /\ a.project_id = project_id
       THEN db
       ELSE [db EXCEPT !.attachments =
               @ \cup {[computer_id |-> computer_id, project_id |-> project_id] @@ settings}]

\* PATCH /project_attachments/{id}
update_attachment(db, computer_id, project_id, settings) ==
    [db EXCEPT !.attachments =
        {IF a.computer_id = computer_id /\ a.project_id = project_id
         THEN [computer_id |-> computer_id, project_id |-> project_id] @@ settings
         ELSE a : a \in @}]

\* DELETE /project_attachments/{id}
delete_attachment(db, computer_id, project_id) ==
    [db EXCEPT !.attachments =
        {a \in @ : ~(a.computer_id = computer_id /\ a.project_id = project_id)}]

-----------------------------------------------------------------------------
(* The values the model draws from *)

NameAlice == <<"a", "l", "i", "c", "e">>
NameAliceCapital == <<"A", "l", "i", "c", "e">>
NameBob == <<"b", "o", "b">>
NameCarol == <<"c", "a", "r", "o", "l">>
NameGhost == <<"e", "v", "e">>

PasswordA == <<"c", "o", "r", "r", "e", "c", "t", "-", "h", "o", "r", "s", "e", "-", "0", "1">>
PasswordB == <<"b", "a", "t", "t", "e", "r", "y", "-", "s", "t", "a", "p", "l", "e", "-", "2">>
PasswordShort == <<"h", "u", "n", "t", "e", "r", "2">>

StrongKey == <<"4", "f", "a", "9">>
WeakKey == <<"7", "1", "_", "c", "3">>

Id == [alice |-> 1, bob |-> 2, carol |-> 3]

UserRow(id, username, password, is_active, role) ==
    [id |-> id, username |-> username, password_hash |-> hash_password(password),
     boinc_password_hash |-> hash_boinc_password(username, password),
     is_active |-> is_active, role |-> role]

\* alice and bob registered and active, carol deactivated
InitUsers ==
    {UserRow(Id.alice, NameAlice, PasswordA, TRUE, "super_admin"),
     UserRow(Id.bob, NameBob, PasswordB, TRUE, "user"),
     UserRow(Id.carol, NameCarol, PasswordB, FALSE, "user")}

ProjectRow(id, enabled) ==
    [id |-> id, enabled |-> enabled,
     url |-> IF id = 1 THEN "https://p1.example/" ELSE "https://p2.example/",
     signed_url |-> IF id = 1 THEN "signature-p1" ELSE "signature-p2"]

InitProjects == {ProjectRow(id, TRUE) : id \in ProjectIds}

\* ProjectAttachmentBase's defaults
DefaultSettings ==
    [resource_share |-> 100, suspended |-> FALSE, dont_request_more_work |-> FALSE,
     detach_when_done |-> FALSE, no_cpu |-> FALSE, no_gpu_nvidia |-> FALSE,
     no_gpu_amd |-> FALSE, no_gpu_intel |-> FALSE]

DetachWhenDoneSettings == [DefaultSettings EXCEPT !.detach_when_done = TRUE]

CustomSettings ==
    [resource_share |-> 50, suspended |-> TRUE, dont_request_more_work |-> TRUE,
     detach_when_done |-> FALSE, no_cpu |-> TRUE, no_gpu_nvidia |-> FALSE,
     no_gpu_amd |-> TRUE, no_gpu_intel |-> TRUE]

SomeSettings == {DefaultSettings, DetachWhenDoneSettings, CustomSettings}

CpidX == "cpid-x"
CpidY == "cpid-y"

\* "abc", "6.12.9", "6.13", "7.0.0"
SomeVersions == {<<-1>>, <<6, 12, 9>>, <<6, 13>>, <<7, 0, 0>>}

\* A <project> block of a request, with the settings a client reports by default
XmlProject(project_id, account_key) ==
    [url |-> ProjectRow(project_id, TRUE).url, account_key |-> account_key,
     resource_share |-> 100, suspended_via_gui |-> FALSE,
     dont_request_more_work |-> FALSE, detach_when_done |-> FALSE]

\* What a client says of one project: nothing, or a <project> block with or
\* without an account key
ReportsOf(project_id, reported_keys) ==
    {<< >>} \cup {<<XmlProject(project_id, k)>> : k \in reported_keys}

\* The project lists a client sends
SomeReports ==
    {r1 \o r2 : r1 \in ReportsOf(1, {None, Some(StrongKey), Some(WeakKey)}),
                r2 \in ReportsOf(2, {Some(StrongKey)})}

Request(name, password_hash, host_cpid, previous_host_cpid, uuid, client_version, reported) ==
    [name |-> name, password_hash |-> password_hash, host_cpid |-> host_cpid,
     previous_host_cpid |-> previous_host_cpid, domain_name |-> "host-a",
     uuid |-> uuid, client_version |-> client_version, projects |-> reported]

ValidBody(request) == [xml |-> "valid", request |-> request]

\* alice's client on her computer, with the uuid it was given
ReconcileBodies ==
    {ValidBody(Request(NameAlice, hash_boinc_password(NameAlice, PasswordA), CpidX, "",
                       uuid, v, r))
     : uuid \in {Some(1)}, v \in SomeVersions, r \in SomeReports}

-----------------------------------------------------------------------------
(* State machine *)

\* No session, no invite code, no request seen by the rate limiter
NoOthers ==
    /\ sessions = {}
    /\ invite_codes = {}
    /\ now = 0
    /\ clients = << >>

Idle == [op |-> "none"]

SetDB(db) ==
    /\ users' = db.users
    /\ computers' = db.computers
    /\ projects' = db.projects
    /\ keys' = db.keys
    /\ attachments' = db.attachments
    /\ groups' = db.groups
    /\ UNCHANGED others

\* An API call other than rpc: it changes the rows or fails and changes nothing.
Api(db) ==
    \E written \in {db} :
        /\ written # DB
        /\ SetDB(written)
        /\ last' = Idle
        /\ UNCHANGED threads

\* POST /boinc/rpc.php
Rpc(body) ==
    \E o \in rpc(DB, body) :
        /\ SetDB(o.db)
        /\ last' = [op |-> "rpc", body |-> body, pre |-> DB, reply |-> o.reply,
                    raised |-> o.raised, computer |-> o.computer, deleted |-> o.deleted]
        /\ UNCHANGED threads

\* alice's computer 1 and bob's computer 2, both bound to the global default group;
\* alice has keys for both projects and computer 1 is attached to both; bob's
\* computer is attached to project 1.
InitReconcile ==
    /\ NoOthers
    /\ users = InitUsers
    /\ projects = InitProjects
    /\ groups = {[id |-> 1, user_id |-> None, name |-> DefaultName, is_default |-> TRUE]}
    /\ computers = {[id |-> 1, user_id |-> Id.alice, cpid |-> CpidX, hostname |-> "host-a",
                     preference_group_id |-> Some(1)],
                    [id |-> 2, user_id |-> Id.bob, cpid |-> CpidY, hostname |-> "host-b",
                     preference_group_id |-> Some(1)]}
    /\ keys = {[user_id |-> u, project_id |-> p, account_key |-> encrypt_account_key(StrongKey)]
               : u \in {Id.alice, Id.bob}, p \in ProjectIds}
    /\ attachments = {[computer_id |-> 1, project_id |-> p] @@ DefaultSettings : p \in ProjectIds}
                     \cup {[computer_id |-> 2, project_id |-> 1] @@ CustomSettings}
    /\ last = Idle
    /\ threads = << >>

ReconcileRequest == \E body \in ReconcileBodies : Rpc(body)

SetProjectEnabled == \E p \in ProjectIds, e \in BOOLEAN : Api(update_project(DB, p, e))

SetKey ==
    \E p \in {1}, k \in {StrongKey, WeakKey} :
        Api(create_or_update_user_project_key(DB, Id.alice, p, k))

DeleteKey == \E p \in {1} : Api(delete_user_project_key(DB, Id.alice, p))

RotateMasterKey == Api(rotate_master_key(DB))

CreateAttachment ==
    \E p \in ProjectIds : Api(create_project_attachment(DB, Id.alice, 1, p, DefaultSettings))

UpdateAttachment ==
    \E p \in {1}, s \in SomeSettings : Api(update_attachment(DB, 1, p, s))

DeleteAttachment == \E p \in ProjectIds : Api(delete_attachment(DB, 1, p))

Next ==
    \/ ReconcileRequest
    \/ SetProjectEnabled
    \/ SetKey
    \/ DeleteKey
    \/ RotateMasterKey
    \/ CreateAttachment
    \/ UpdateAttachment
    \/ DeleteAttachment

Spec == InitReconcile /\ [][Next]_vars

-----------------------------------------------------------------------------
(* Reconciliation: what the last request did *)

\* The last step was an rpc that reached _process_projects.
Reconciled == last.op = "rpc" /\ last.computer # None

\* The attachments the requesting computer had when the request arrived
Before == {a \in last.pre.attachments : a.computer_id = The(last.computer)}

Requester == The(get_by_username(last.pre, last.body.request.name))

EnabledBefore(a) == enabled_project(last.pre, a.project_id) # None

KeyBefore(a) == user_key(last.pre, Requester.id, a.project_id)

UrlOf(a) == The(attachment_project(last.pre, a)).url

ReportedByClient(a) == client_project(last.body.request, UrlOf(a)) # None

DirectivesFor(a) ==
    {last.reply.accounts[i] : i \in {j \in DOMAIN last.reply.accounts :
                                        last.reply.accounts[j].url = UrlOf(a)}}

DetachSent(a) == \E acc \in DirectivesFor(a) : acc.detach = Some(TRUE)

Gone(a) ==
    ~ \E r \in attachments : r.computer_id = a.computer_id /\ r.project_id = a.project_id

\* C1: after a reconciliation, every attachment the computer had to a project that
\* is not enabled has been answered with a detach directive of that project's URL
\* and its row is deleted, whatever the client reported and whatever keys exist.
C1_DetachOnDisable ==
    Reconciled =>
        \A a \in Before : ~EnabledBefore(a) => DetachSent(a) /\ Gone(a)

\* A disabled project the user still has a key for and the client still reports
C1_Witness ==
    /\ Reconciled
    /\ \E a \in Before : /\ ~EnabledBefore(a)
                         /\ KeyBefore(a) # None
                         /\ ReportedByClient(a)

\* C2: after a reconciliation, every attachment to an enabled project for which the
\* user's key is absent or decrypts to the empty string has been answered with a
\* detach directive and its row is deleted.
C2_DetachOnMissingOrEmptyKey ==
    Reconciled =>
        \A a \in Before :
            (EnabledBefore(a) /\ key_missing_or_empty(KeyBefore(a))) => DetachSent(a) /\ Gone(a)

\* C3: a reconciliation deletes an attachment of the computer only when its project
\* is not enabled, the user has no usable key for it, or the client does not report
\* it and detach_when_done is set; every other row of the table is as it was, and
\* no row is new.
C3_OnlyDeletesInThreeCases ==
    Reconciled =>
        /\ \A a \in Before :
              \/ a \in attachments
              \/ /\ Gone(a)
                 /\ \/ ~EnabledBefore(a)
                    \/ key_missing_or_empty(KeyBefore(a))
                    \/ ~ReportedByClient(a) /\ a.detach_when_done
        /\ \A a \in last.pre.attachments \ Before : a \in attachments
        /\ attachments \subseteq last.pre.attachments
        /\ last.deleted = last.pre.attachments \ attachments

\* One attachment deleted, another of the same computer kept, and another computer's
C3_Witness ==
    /\ Reconciled
    /\ \E a, b \in Before : Gone(a) /\ b \in attachments
    /\ last.pre.attachments \ Before # {}

NotDetach(acc) == acc.detach = None

WeakKeyAttachment(a) ==
    /\ EnabledBefore(a)
    /\ KeyBefore(a) # None
    /\ Contains(The(KeyBefore(a)).account_key, "_")
    /\ ReportedByClient(a) \/ ~a.detach_when_done

ClientTooOld ==
    \/ parse_client_version(last.body.request.client_version) = None
    \/ VersionLess(last.body.request.client_version, <<6, 13, 0>>)

C5_WitnessSent ==
    /\ Reconciled
    /\ ~ClientTooOld
    /\ \E a \in Before : /\ WeakKeyAttachment(a)
                         /\ \E acc \in DirectivesFor(a) : Contains(acc.authenticator, "_")

-----------------------------------------------------------------------------
(* Authentication and request parsing: any client, a fresh database *)

\* The registered users and projects, and nothing else yet
InitAuth ==
    /\ NoOthers
    /\ users = InitUsers
    /\ projects = InitProjects
    /\ groups = {}
    /\ computers = {}
    /\ keys = {}
    /\ attachments = {}
    /\ last = Idle
    /\ threads = << >>

SomeNames == {NameAlice, NameAliceCapital, NameBob, NameCarol, NameGhost}

SomeHashes ==
    {hash_boinc_password(NameAlice, PasswordA), hash_boinc_password(NameBob, PasswordB),
     hash_boinc_password(NameCarol, PasswordB), hash_boinc_password(NameAlice, PasswordB)}

\* Requests of any name and hash, from a host of either CPID, with or without a
\* previous CPID and a uuid
AuthBodies ==
    {ValidBody(Request(name, h, cpid, previous, uuid, <<7, 0, 0>>, << >>))
     : name \in SomeNames, h \in SomeHashes, cpid \in {CpidX, CpidY},
       previous \in {"", CpidX}, uuid \in {None} \cup {Some(id) : id \in ComputerIds}}

\* Bodies that are no XML, and XML without a required element
BadBodies == {[xml |-> x, request |-> None] : x \in {"malformed", "incomplete"}}

AuthRequest == \E body \in AuthBodies : Rpc(body)

BadRequest == \E body \in BadBodies : Rpc(body)

NextAuth ==
    \/ AuthRequest
    \/ BadRequest

SpecAuth == InitAuth /\ [][NextAuth]_vars

Answered == last.op = "rpc" /\ last.body.xml = "valid"

NamedUser == get_by_username(last.pre, last.body.request.name)

CredentialsValid ==
    /\ NamedUser # {}
    /\ The(NamedUser).is_active
    /\ The(NamedUser).boinc_password_hash = last.body.request.password_hash

\* C6: a request naming no user is answered -188; one naming a user who is inactive
\* or whose stored protocol hash is not the supplied one is answered -206; one naming
\* an active user with the stored hash is answered without error_num; and the
\* codes -188, -206 and -112 differ from one another.
C6_AuthenticationCodes ==
    /\ Answered =>
          /\ NamedUser = {} => last.reply.error_num = Some(ERR_BAD_USER_NAME)
          /\ (NamedUser # {} /\ ~CredentialsValid) => last.reply.error_num = Some(ERR_BAD_PASSWD)
          /\ CredentialsValid => last.reply.error_num = None
    /\ ERR_BAD_USER_NAME # ERR_BAD_PASSWD
    /\ ERR_BAD_USER_NAME # ERR_XML_PARSE
    /\ ERR_BAD_PASSWD # ERR_XML_PARSE

\* C7: a body that is malformed XML or lacks a required element is answered -112
\* and changes no row.
C7_BadBodyAnsweredXmlParse ==
    (last.op = "rpc" /\ last.body.xml # "valid") =>
        /\ last.reply.error_num = Some(ERR_XML_PARSE)
        /\ DB = last.pre

-----------------------------------------------------------------------------
(* Two requests in flight.  Each runs in a session of its own; a step of a    *)
(* request is what it does up to and including one commit.                   *)

Threads == {1, 2}

\* A request not yet received
Fresh ==
    [pc |-> "idle", body |-> None, user |-> None, found |-> None, computer |-> None,
     seen |-> None, todo |-> << >>, i |-> 1, accounts |-> << >>, deleted |-> {},
     expired |-> FALSE, reply |-> NoReply, raised |-> FALSE]

\* The request is answered.
Done(thread, reply, raised) == [thread EXCEPT !.pc = "done", !.reply = reply, !.raised = raised]

Step(t, thread, db) ==
    \E written \in {db} :
        /\ threads' = [threads EXCEPT ![t] = thread]
        /\ SetDB(written)
        /\ UNCHANGED last

\* rpc up to the call of update_or_create_from_request: parsing and authentication
Receive(t, body) ==
    /\ threads[t].pc = "idle"
    /\ LET me == [threads[t] EXCEPT !.body = Some(body)]
           found == authenticate_boinc_client(DB, body.request.name, body.request.password_hash)
       IN IF from_xml(body) # ""
          THEN Step(t, Done(me, exception_reply(from_xml(body)), TRUE), DB)
          ELSE IF get_by_username(DB, body.request.name) = {}
          THEN Step(t, Done(me, ErrorReply(ERR_BAD_USER_NAME), FALSE), DB)
          ELSE IF found = {}
          THEN Step(t, Done(me, ErrorReply(ERR_BAD_PASSWD), FALSE), DB)
          ELSE Step(t, [me EXCEPT !.pc = "find", !.user = found], DB)

\* The lookups of the upsert
Find(t) ==
    /\ threads[t].pc = "find"
    /\ \E found \in find_computer(DB, The(threads[t].user), The(threads[t].body).request) :
          Step(t, [threads[t] EXCEPT !.pc = "write", !.found = Some(found)], DB)

\* The commit of the upsert, and the binding of the default preference group
Write(t) ==
    /\ threads[t].pc = "write"
    /\ LET me == threads[t]
       IN \E u \in write_computer(DB, The(me.user), The(me.body).request, The(me.found)) :
            IF u.error
            THEN Step(t, Done(me, exception_reply("Exception"), TRUE), u.db)
            ELSE \E g \in bind_preference_group(u.db, The(me.user), The(u.computer)) :
                    IF g.error
                    THEN Step(t, Done(me, exception_reply("Exception"), TRUE), g.db)
                    ELSE Step(t, [me EXCEPT !.pc = "load", !.computer = u.computer], g.db)

\* The queries at the head of _process_projects
Load(t) ==
    /\ threads[t].pc = "load"
    /\ Step(t, [threads[t] EXCEPT !.pc = "loop", !.seen = Some(DB),
                                  !.todo = current_attachments(DB, The(threads[t].computer))],
            DB)

\* The row of the table that has the primary key of attachment a
StoredAttachment(db, a) ==
    {r \in db.attachments : r.computer_id = a.computer_id /\ r.project_id = a.project_id}

\* One iteration of the loop over current_attachments.  After a commit of its own the
\* session's objects are expired: the attachment is read again, and the read raises
\* ObjectDeletedError when the row is gone.  A delete commits at once.
Iterate(t) ==
    LET me == threads[t]
        loaded == me.todo[me.i]
        stored == StoredAttachment(DB, loaded)
        attachment == IF me.expired THEN The(stored) ELSE loaded
        result == process_attachment(The(me.seen), The(me.user), attachment,
                                     The(me.body).request)
    IN /\ me.pc = "loop"
       /\ me.i <= Len(me.todo)
       /\ IF me.expired /\ stored = {}
          THEN Step(t, Done(me, exception_reply("Exception"), TRUE), DB)
          ELSE Step(t, [me EXCEPT
                          !.i = @ + 1,
                          !.accounts = IF result.account = None THEN @
                                       ELSE Append(@, The(result.account)),
                          !.deleted = IF result.delete THEN @ \cup stored ELSE @,
                          !.expired = @ \/ result.delete],
                    IF result.delete
                    THEN [DB EXCEPT !.attachments = @ \ stored]
                    ELSE DB)

\* The reply of process_request
Reply(t) ==
    LET me == threads[t]
    IN /\ me.pc = "loop"
       /\ me.i > Len(me.todo)
       /\ Step(t, Done(me, [error_num |-> None, repeat_sec |-> Some(RepeatSec),
                            global_preferences |-> build_global_preferences(DB, The(me.computer)),
                            accounts |-> me.accounts,
                            uuid |-> me.computer],
                       FALSE),
               DB)

\* alice's client, before and after it was given a uuid
ConcurrentBodies ==
    {ValidBody(Request(NameAlice, hash_boinc_password(NameAlice, PasswordA), CpidX, "",
                       uuid, <<7, 0, 0>>, << >>))
     : uuid \in {None, Some(1)}}

\* alice's computer known or not yet; when it is, attached to both projects, which
\* are enabled or not
InitConcurrent ==
    /\ NoOthers
    /\ users = InitUsers
    /\ groups = {[id |-> 1, user_id |-> None, name |-> DefaultName, is_default |-> TRUE]}
    /\ keys = {[user_id |-> Id.alice, project_id |-> p,
                account_key |-> encrypt_account_key(StrongKey)] : p \in ProjectIds}
    /\ \E enabled \in SUBSET ProjectIds :
          projects = {ProjectRow(p, p \in enabled) : p \in ProjectIds}
    /\ \/ computers = {} /\ attachments = {}
       \/ /\ computers = {[id |-> 1, user_id |-> Id.alice, cpid |-> CpidX,
                           hostname |-> "host-a", preference_group_id |-> Some(1)]}
          /\ attachments = {[computer_id |-> 1, project_id |-> p] @@ DefaultSettings
                            : p \in ProjectIds}
    /\ last = [op |-> "start", pre |-> DB]
    /\ threads = [t \in Threads |-> Fresh]

ReceiveRequest == \E t \in Threads, body \in ConcurrentBodies : Receive(t, body)

FindComputer == \E t \in Threads : Find(t)

WriteComputer == \E t \in Threads : Write(t)

LoadAttachments == \E t \in Threads : Load(t)

IterateAttachment == \E t \in Threads : Iterate(t)

SendReply == \E t \in Threads : Reply(t)

NextConcurrent ==
    \/ ReceiveRequest
    \/ FindComputer
    \/ WriteComputer
    \/ LoadAttachments
    \/ IterateAttachment
    \/ SendReply

SpecConc == InitConcurrent /\ [][NextConcurrent]_vars

AllDone == \A t \in Threads : threads[t].pc = "done"

\* The outcomes of rpc(first) followed by rpc(second) on the database db: the two
\* replies and the database left
Serial(db, first, second) ==
    {[first |-> a.reply, second |-> b.reply, db |-> b.db]
     : <<a, b>> \in UNION {{<<o1, o2>> : o2 \in rpc(o1.db, second)} : o1 \in rpc(db, first)}}

\* A request that runs alone does what rpc does.
AloneAgreesWithRpc ==
    \A t \in Threads :
        (threads[t].pc = "done" /\ \A u \in Threads \ {t} : threads[u].pc = "idle") =>
            \E o \in rpc(last.pre, The(threads[t].body)) :
                o.reply = threads[t].reply /\ o.db = DB

\* C8: a request that failed after it began to reconcile has deleted no attachment,
\* and no request has loaded a table in which some but not all of the deletions of
\* another request were made.
C8_AtomicReconciliation ==
    \A t \in Threads :
        /\ (threads[t].pc = "done" /\ threads[t].raised) => threads[t].deleted = {}
        /\ AllDone =>
              \A u \in Threads \ {t} :
                  threads[u].seen # None =>
                      \/ threads[t].deleted \cap The(threads[u].seen).attachments = {}
                      \/ threads[t].deleted \subseteq The(threads[u].seen).attachments

\* C9: when two requests of the same body have run concurrently, the two replies and
\* the database are those of running the one after the other, and a first contact
\* has made one computer.
C9_ConcurrentRequestsSerialized ==
    (AllDone /\ threads[1].body = threads[2].body) =>
        /\ \/ [first |-> threads[1].reply, second |-> threads[2].reply, db |-> DB]
                 \in Serial(last.pre, The(threads[1].body), The(threads[2].body))
           \/ [first |-> threads[2].reply, second |-> threads[1].reply, db |-> DB]
                 \in Serial(last.pre, The(threads[2].body), The(threads[1].body))
        /\ Cardinality(computers) = 1

-----------------------------------------------------------------------------
(* UserService.create and UserService.update *)

MinUsernameLength == 3
MaxUsernameLength == 50
MinPasswordLength == 16

\* "if x": a string that is given and not empty
Truthy(optional_str) == optional_str # None /\ The(optional_str) # EmptyStr

\* validate_username: the stripped name, or None when it is refused
validate_username(value) ==
    IF Len(Strip(value)) < MinUsernameLength \/ Len(Strip(value)) > MaxUsernameLength
    THEN None
    ELSE Some(Strip(value))

\* validate_password_length of UserCreate and UserUpdate
validate_password_length(value) == Len(value) >= MinPasswordLength

\* UserCreate(username, password, role): the validated data, or None (ValidationError)
UserCreate(username, password, role) ==
    IF validate_username(username) = None \/ ~validate_password_length(password)
    THEN None
    ELSE Some([username |-> The(validate_username(username)), password |-> password,
               role |-> role])

\* UserUpdate(username, password, current_password, role): the validated data, or None
UserUpdate(username, password, current_password, role) ==
    IF \/ username # None /\ validate_username(The(username)) = None
       \/ password # None /\ ~validate_password_length(The(password))
    THEN None
    ELSE Some([username |-> IF username = None THEN None ELSE validate_username(The(username)),
               password |-> password, current_password |-> current_password, role |-> role])

can_modify_user(self, target_user) ==
    IF self.role = "super_admin"
    THEN target_user.role # "super_admin" \/ self.id = target_user.id
    ELSE IF self.role = "admin"
    THEN target_user.role = "user"
    ELSE self.id = target_user.id

can_change_role(self, target_user) ==
    IF self.role # "super_admin" THEN FALSE ELSE target_user.role # "super_admin"

\* An outcome of a UserService call: the database it leaves and its status ("ok",
\* or the exception raised)
Outcome(db, status) == [db |-> db, status |-> status]

\* UserService.create(object_data); the unique username refuses a second row.
create(db, object_data) ==
    LET id == FreshId(UserIds, db.users)
        role == IF db.users = {} /\ object_data.role \in {"admin", "user"}
                THEN "super_admin" ELSE object_data.role
    IN IF get_by_username(db, object_data.username) # {}
       THEN {Outcome(db, "IntegrityError")}
       ELSE IF id = None THEN {}
       ELSE {Outcome([db EXCEPT !.users = @ \cup
                        {[id |-> The(id), username |-> object_data.username,
                          password_hash |-> hash_password(object_data.password),
                          boinc_password_hash |-> hash_boinc_password(object_data.username,
                                                                      object_data.password),
                          is_active |-> TRUE, role |-> role]}],
                     "ok")}

recalculated_with_old_username(user, new_username, object_data, password_changed, password_verified) ==
    IF password_changed /\ Truthy(object_data.password)
    THEN Some(hash_boinc_password(user.username, The(object_data.password)))
    ELSE IF password_verified /\ Truthy(object_data.current_password)
    THEN Some(hash_boinc_password(user.username, The(object_data.current_password)))
    ELSE None

\* "Recalculate BOINC password hash if username or password changed": the hash, or
\* None where the code raises 400.
recalculated_boinc_password_hash(user, new_username, object_data, password_changed, password_verified) ==
    IF password_changed /\ Truthy(object_data.password)
    THEN Some(hash_boinc_password(new_username, The(object_data.password)))
    ELSE IF password_verified /\ Truthy(object_data.current_password)
    THEN Some(hash_boinc_password(new_username, The(object_data.current_password)))
    ELSE None

\* UserService.update(object_id, object_data, current_user)
update(db, object_id, object_data, current_user) ==
    LET found == {u \in db.users : u.id = object_id}
        user == The(found)
        is_self_update == current_user # None /\ The(current_user).id = user.id
        password_verified == Truthy(object_data.current_password)
        username_changed == object_data.username # None /\ The(object_data.username) # user.username
        password_changed == object_data.password # None
        new_username == IF object_data.username # None THEN The(object_data.username)
                        ELSE user.username
        taken == \E u \in get_by_username(db, new_username) : u.id # user.id
        boinc_password_hash ==
            recalculated_boinc_password_hash(user, new_username, object_data,
                                             password_changed, password_verified)
    IN IF found = {} THEN Outcome(db, "None")
       ELSE IF current_user # None /\ ~can_modify_user(The(current_user), user)
       THEN Outcome(db, "404")
       ELSE IF /\ current_user # None
               /\ object_data.role # None
               /\ The(object_data.role) # user.role
               /\ ~can_change_role(The(current_user), user)
       THEN Outcome(db, "404")
       ELSE IF is_self_update /\ Truthy(object_data.password) /\ ~Truthy(object_data.current_password)
       THEN Outcome(db, "400")
       ELSE IF /\ Truthy(object_data.current_password)
               /\ ~verify_password(The(object_data.current_password), user.password_hash)
       THEN Outcome(db, "401")
       ELSE IF /\ Truthy(object_data.username) /\ username_changed
               /\ ~Truthy(object_data.current_password) /\ ~Truthy(object_data.password)
       THEN Outcome(db, "400")
       ELSE IF username_changed /\ taken
       THEN Outcome(db, "409")
       ELSE IF (username_changed \/ password_changed) /\ boinc_password_hash = None
       THEN Outcome(db, "400")
       ELSE Outcome([db EXCEPT !.users = (@ \ found) \cup
                       {[user EXCEPT
                           !.username = new_username,
                           !.password_hash = IF password_changed
                                             THEN hash_password(The(object_data.password))
                                             ELSE @,
                           !.boinc_password_hash = IF username_changed \/ password_changed
                                                   THEN The(boinc_password_hash)
                                                   ELSE @,
                           !.role = IF object_data.role # None THEN The(object_data.role)
                                    ELSE @]}],
                    "ok")

NameShort == <<"a", "b">>
NamePadded == <<" ", "b", "o", "b", " ">>

\* A database with no row
InitEmpty ==
    /\ NoOthers
    /\ users = {}
    /\ projects = {}
    /\ groups = {}
    /\ computers = {}
    /\ keys = {}
    /\ attachments = {}
    /\ last = Idle
    /\ threads = << >>

\* POST /users/register and the create-user command
CreateUser ==
    \E username \in {NameAlice, NamePadded, NameShort},
       password \in {PasswordA, PasswordB, PasswordShort} :
        \E object_data \in UserCreate(username, password, "user") :
            \E o \in create(DB, object_data) :
                /\ SetDB(o.db)
                /\ last' = [op |-> "create", pre |-> DB, status |-> o.status]
                /\ UNCHANGED threads

\* A body pydantic refuses: no service is called.
RefuseUser ==
    /\ \E username \in {NameAlice, NameShort}, password \in {PasswordA, PasswordShort} :
          UserCreate(username, password, "user") = None
    /\ last' = [op |-> "create", pre |-> DB, status |-> "ValidationError"]
    /\ UNCHANGED <<users, computers, projects, keys, attachments, groups, threads, others>>

\* PATCH /users/me (current_user None), PATCH /users/{id} and the admin command
UpdateUser ==
    \E object_id \in UserIds,
       current_user \in {None} \cup {Some(u) : u \in users},
       username \in {None, Some(NameAliceCapital), Some(NameBob)},
       password \in {None, Some(PasswordA), Some(PasswordB)},
       current_password \in {None, Some(EmptyStr), Some(PasswordA)},
       role \in {None} :
        \E object_data \in UserUpdate(username, password, current_password, role) :
            \E o \in {update(DB, object_id, object_data, current_user)} :
                /\ SetDB(o.db)
                /\ last' = [op |-> "update", pre |-> DB, status |-> o.status,
                            object_id |-> object_id, object_data |-> object_data]
                /\ UNCHANGED threads

NextUsers ==
    \/ CreateUser
    \/ RefuseUser
    \/ UpdateUser

SpecUsers == InitEmpty /\ [][NextUsers]_vars

SomePasswords == {PasswordA, PasswordB, PasswordShort, EmptyStr}

\* The update names a username or a password other than the stored one, and gives
\* no password to hash.
CannotRecompute ==
    /\ last.op = "update"
    /\ \E u \in last.pre.users :
          /\ u.id = last.object_id
          /\ last.object_data.username # None
          /\ The(last.object_data.username) # u.username
    /\ ~Truthy(last.object_data.password)
    /\ ~Truthy(last.object_data.current_password)

\* C10: every stored user has a password that verifies against its password_hash, and
\* its boinc_password_hash is hash_boinc_password of its username and that password;
\* a call that is refused leaves every row as it was, and an update that changes the
\* username without a password to hash is refused.
C10_CredentialInvariant ==
    /\ \A u \in users :
          /\ \E P \in SomePasswords : verify_password(P, u.password_hash)
          /\ \A P \in SomePasswords :
                verify_password(P, u.password_hash) =>
                    u.boinc_password_hash = hash_boinc_password(u.username, P)
    /\ (last.op \in {"create", "update"} /\ last.status # "ok") => DB = last.pre
    /\ CannotRecompute => last.status # "ok"

\* A user whose username and whose password were both changed by updates, and an
\* update refused for want of a password
C10_Witness ==
    /\ last.op = "update"
    /\ last.status = "ok"
    /\ \E u \in users, before \in last.pre.users :
          /\ u.id = before.id
          /\ u.username # before.username
          /\ u.password_hash # before.password_hash

C10_WitnessRefused == CannotRecompute /\ last.status = "400"


-----------------------------------------------------------------------------
(* PreferenceGroupService: create, update and delete of the API *)

\* A scope is the user_id of a group: None for the global scope, Some(id) for a
\* user's own groups.
defaults_of(db, user_id) == {g \in db.groups : g.is_default /\ g.user_id = user_id}

PreferenceGroupCreate(user_id, name, is_default) ==
    [user_id |-> user_id, name |-> name, is_default |-> is_default]

\* name and is_default are Optional: None leaves the column alone (exclude_none)
PreferenceGroupUpdate(name, is_default) == [name |-> name, is_default |-> is_default]

\* An outcome of a service call: the database it leaves and "" or what it raised.
GroupOutcome(db, status) == [db |-> db, status |-> status]

unset_nothing(db, user_id) == {db}

\* _unset_existing_default(user_id): first() of the defaults of the scope is any of
\* them; it is written back with is_default = False.  The databases it can leave.
unset_existing_default(db, user_id) ==
    IF defaults_of(db, user_id) = {}
    THEN {db}
    ELSE {[db EXCEPT !.groups = (@ \ {g}) \cup {[g EXCEPT !.is_default = FALSE]}]
          : g \in defaults_of(db, user_id)}

\* PreferenceGroupService.create(object_data); no outcome when the model has no id
\* left.
create_preference_group(db, object_data) ==
    IF get_by_name(db, object_data.name, object_data.user_id) # {}
    THEN {GroupOutcome(db, "409")}
    ELSE LET id == FreshId(GroupIds, db.groups)
             cleared == IF object_data.is_default
                        THEN unset_existing_default(db, object_data.user_id)
                        ELSE {db}
         IN IF id = None THEN {}
            ELSE {GroupOutcome([c EXCEPT !.groups = @ \cup {[id |-> The(id)] @@ object_data}], "")
                  : c \in cleared}

get_preference_group(db, object_id) == {g \in db.groups : g.id = object_id}

\* BaseService.update: the fields of object_data that are not None are assigned
sqlmodel_update(group, object_data) ==
    [group EXCEPT !.name = IF object_data.name # None THEN The(object_data.name) ELSE @,
                  !.is_default = IF object_data.is_default # None
                                 THEN The(object_data.is_default) ELSE @]

\* PreferenceGroupService.update(object_id, object_data)
update_preference_group(db, object_id, object_data) ==
    LET found == get_preference_group(db, object_id)
        preference_group == The(found)
        cleared == IF object_data.is_default = Some(TRUE)
                   THEN unset_existing_default(db, preference_group.user_id)
                   ELSE {db}
    IN IF found = {}
       THEN {GroupOutcome(db, "not found")}
       ELSE IF /\ object_data.name \notin {None, Some(""), Some(preference_group.name)}
               /\ get_by_name(db, The(object_data.name), preference_group.user_id) # {}
       THEN {GroupOutcome(db, "409")}
       ELSE {GroupOutcome([c EXCEPT !.groups =
                             {IF g.id = object_id THEN sqlmodel_update(g, object_data) ELSE g
                              : g \in @}], "")
             : c \in cleared}

\* PreferenceGroupService.delete(object_id)
delete_preference_group(db, object_id) ==
    LET found == get_preference_group(db, object_id)
    IN IF found = {}
       THEN {GroupOutcome(db, "not found")}
       ELSE IF \E c \in db.computers : c.preference_group_id = Some(object_id)
       THEN {GroupOutcome(db, "400")}
       ELSE {GroupOutcome([db EXCEPT !.groups = @ \ found], "")}


-----------------------------------------------------------------------------
(* Preference groups: the API's group calls and first requests of computers *)

\* The global scope and alice's; bob has no group of his own
Scopes == {None, Some(Id.alice)}

\* The groups the API is asked to create, <<scope, name>>: two global ones and one
\* of alice's
SomeGroups == {<<None, DefaultName>>, <<None, "Custom">>, <<Some(Id.alice), DefaultName>>}

\* What a group call did: the scope it worked in, whether it asked for a default,
\* the groups that were defaults before it (id and scope) and what it raised (""
\* when it returned).
GroupCall(op, scope, set_default, status) ==
    [op |-> op, scope |-> scope, set_default |-> set_default, status |-> status,
     defaults |-> {[id |-> g.id, user_id |-> g.user_id] : g \in {h \in groups : h.is_default}}]

\* POST /api/v1/preference_groups
CreateGroup ==
    \E group \in SomeGroups, is_default \in BOOLEAN :
        \E o \in create_preference_group(
                    DB, PreferenceGroupCreate(group[1], group[2], is_default)) :
            /\ SetDB(o.db)
            /\ last' = GroupCall("create", group[1], is_default, o.status)
            /\ UNCHANGED threads

\* PATCH /api/v1/preference_groups/{id}
UpdateGroup ==
    \E g \in groups, name \in {None, Some(DefaultName)},
       is_default \in {None, Some(TRUE), Some(FALSE)} :
        \E o \in update_preference_group(DB, g.id, PreferenceGroupUpdate(name, is_default)) :
            /\ SetDB(o.db)
            /\ last' = GroupCall("update", g.user_id, is_default = Some(TRUE), o.status)
            /\ UNCHANGED threads

\* DELETE /api/v1/preference_groups/{id}
DeleteGroup ==
    \E g \in groups :
        \E o \in delete_preference_group(DB, g.id) :
            /\ SetDB(o.db)
            /\ last' = GroupCall("delete", g.user_id, FALSE, o.status)
            /\ UNCHANGED threads

\* PreferenceGroupService.get_default(user_id) on its own
GetDefault ==
    \E u \in {Id.alice, Id.bob} :
        \E o \in get_default(DB, u) :
            /\ SetDB(o.db)
            /\ last' = GroupCall("get_default", None, FALSE, IF o.error THEN "409" ELSE "")
            /\ UNCHANGED threads

\* alice's client on host cpid-x and bob's on host cpid-y, with no uuid and no
\* projects
PreferenceBodies ==
    {ValidBody(Request(NameAlice, hash_boinc_password(NameAlice, PasswordA), CpidX, "",
                       None, <<7, 0, 0>>, << >>)),
     ValidBody(Request(NameBob, hash_boinc_password(NameBob, PasswordB), CpidY, "",
                       None, <<7, 0, 0>>, << >>))}

PreferenceRequest == \E body \in PreferenceBodies : Rpc(body)

NextPreferences ==
    \/ CreateGroup
    \/ UpdateGroup
    \/ DeleteGroup
    \/ GetDefault
    \/ PreferenceRequest

SpecPreferences == InitAuth /\ [][NextPreferences]_vars

\* C11: after any sequence of create, update, delete and get_default (and of
\* requests, which call get_default), every scope, a user's or the global one, has
\* at most one group with is_default = true; and a call that sets a default in
\* one scope leaves every default of every other scope a default.
C11_AtMostOneDefaultPerScope ==
    /\ \A scope \in Scopes : Cardinality(defaults_of(DB, scope)) <= 1
    /\ (last.op \in {"create", "update"} /\ last.set_default) =>
           \A g \in last.defaults :
               g.user_id # last.scope => \E h \in groups : h.id = g.id /\ h.is_default

\* A default was set in a scope that had another default, which is cleared, while
\* another scope's default stood by.
C11_Witness ==
    /\ last.op \in {"create", "update"}
    /\ last.set_default
    /\ last.status = ""
    /\ \E g \in last.defaults, h \in defaults_of(DB, last.scope) :
           g.user_id = last.scope /\ g.id # h.id
    /\ \E g \in last.defaults : g.user_id # last.scope


-----------------------------------------------------------------------------
(* Preference resolution: what a request of an authenticated client binds *)

\* The last call was a request of a user whose credentials were accepted
Resolved ==
    /\ last.op = "rpc"
    /\ last.body.xml = "valid"
    /\ authenticate_boinc_client(last.pre, last.body.request.name,
                                 last.body.request.password_hash) # {}

\* The requesting computer's row in db (the hosts of the requests differ by CPID)
RequestingComputer(db) ==
    {c \in db.computers : /\ c.user_id = Requester.id
                          /\ c.cpid = last.body.request.host_cpid}

\* The group the requesting computer references in db: None when it has no row or
\* no group
GroupOf(db) ==
    IF RequestingComputer(db) = {} THEN None
    ELSE The(RequestingComputer(db)).preference_group_id

Succeeded == ~last.raised /\ last.reply.error_num = None

\* The first request found no default of any scope: one global default is
\* created, the computer is bound to it and the request succeeds.
BootstrapCreatesOne ==
    (Resolved /\ GroupOf(last.pre) = None
              /\ \A g \in last.pre.groups : ~g.is_default) =>
        /\ Succeeded
        /\ \E g \in groups :
              /\ g \notin last.pre.groups
              /\ groups = last.pre.groups \cup {g}
              /\ g.is_default /\ g.user_id = None
              /\ GroupOf(DB) = Some(g.id)

\* The first request of a computer whose user has no default of his own found a
\* global default: the computer is bound to it and no group is created.
BootstrapReusesGlobal ==
    (Resolved /\ GroupOf(last.pre) = None
              /\ defaults_of(last.pre, Some(Requester.id)) = {}
              /\ defaults_of(last.pre, None) # {}) =>
        /\ Succeeded
        /\ groups = last.pre.groups
        /\ \E g \in defaults_of(last.pre, None) : GroupOf(DB) = Some(g.id)

\* C12: a first request of a computer with no preference group, when no default
\* group exists in any scope, creates exactly one global default, binds it to the
\* computer and succeeds; a later first request of another user's new computer
\* (that user having no default of his own) binds that same global default and
\* creates no group.
C12_DefaultBootstrap == BootstrapCreatesOne /\ BootstrapReusesGlobal

\* The bootstrap happened: a request created the global default and bound it.
C12_WitnessCreated ==
    /\ Resolved /\ Succeeded
    /\ GroupOf(last.pre) = None
    /\ \A g \in last.pre.groups : ~g.is_default
    /\ GroupOf(DB) # None

\* bob's new computer was bound to the global default alice's request created.
C12_WitnessReused ==
    /\ Resolved /\ Succeeded
    /\ Requester.id = Id.bob
    /\ GroupOf(last.pre) = None
    /\ \E c \in last.pre.computers : c.user_id = Id.alice /\ c.preference_group_id = GroupOf(DB)


\* The request succeeded with group as the effective group: the computer
\* references it and the reply's preferences are built from it.
EffectiveGroup(group) ==
    /\ Succeeded
    /\ GroupOf(DB) = group
    /\ last.reply.global_preferences = group

\* Case 1: the computer references a group already
Sticky ==
    (Resolved /\ GroupOf(last.pre) # None) =>
        EffectiveGroup(GroupOf(last.pre)) /\ groups = last.pre.groups

\* Case 2: no group yet, the owning user has a default
UserDefaultBound ==
    (Resolved /\ GroupOf(last.pre) = None
              /\ defaults_of(last.pre, Some(Requester.id)) # {}) =>
        /\ \E g \in defaults_of(last.pre, Some(Requester.id)) : EffectiveGroup(Some(g.id))
        /\ groups = last.pre.groups

\* Case 3: no group yet, no default of the user, a global default
GlobalDefaultBound ==
    (Resolved /\ GroupOf(last.pre) = None
              /\ defaults_of(last.pre, Some(Requester.id)) = {}
              /\ defaults_of(last.pre, None) # {}) =>
        /\ \E g \in defaults_of(last.pre, None) : EffectiveGroup(Some(g.id))
        /\ groups = last.pre.groups

\* Case 4: no group yet and neither default
NewDefaultBound ==
    (Resolved /\ GroupOf(last.pre) = None
              /\ defaults_of(last.pre, Some(Requester.id)) = {}
              /\ defaults_of(last.pre, None) = {}) =>
        \E g \in groups :
            /\ g \notin last.pre.groups
            /\ groups = last.pre.groups \cup {g}
            /\ g.is_default /\ g.user_id = None
            /\ EffectiveGroup(Some(g.id))

\* C13: the effective group of a requesting computer is (1) the group it already
\* references, whatever the defaults have become; otherwise (2) its user's default
\* group; otherwise (3) the global default group; otherwise (4) a newly created
\* global default; in the cases 2 to 4 the group is bound to the computer.
C13_PreferenceResolution ==
    Sticky /\ UserDefaultBound /\ GlobalDefaultBound /\ NewDefaultBound

\* The cases 1 to 3 of the resolution
C13_ExistingGroupResolution == Sticky /\ UserDefaultBound /\ GlobalDefaultBound

\* A computer kept its group although its user's default is another group now.
C13_WitnessSticky ==
    /\ Resolved /\ Succeeded
    /\ GroupOf(last.pre) # None
    /\ \E g \in defaults_of(last.pre, Some(Requester.id)) : Some(g.id) # GroupOf(last.pre)

\* A new computer got its user's default although a global default exists.
C13_WitnessUserDefault ==
    /\ Resolved /\ Succeeded
    /\ GroupOf(last.pre) = None
    /\ defaults_of(last.pre, None) # {}
    /\ \E g \in defaults_of(last.pre, Some(Requester.id)) : GroupOf(DB) = Some(g.id)


-----------------------------------------------------------------------------
(* The account-key codec on its own *)

MaxKeyLen == 3

KeyChars == {"a", "_"}

\* The account keys of at most MaxKeyLen characters, the empty one included
Plaintexts == UNION {[1..n -> KeyChars] : n \in 0..MaxKeyLen}

Truncations(c) == {SubSeq(c, 1, n) : n \in 1..(Len(c) - 1)}

\* One character of the text replaced by another of the alphabet
Corruptions(c) == {[c EXCEPT ![i] = <<"z">>] : i \in 1..Len(c)}

\* A line break or a "!" put somewhere into the text
Insertions(c) ==
    {SubSeq(c, 1, i) \o <<x>> \o SubSeq(c, i + 1, Len(c)) : i \in 0..Len(c), x \in NonAlphabet}

\* What the column can hold: nothing, ciphertexts of the current key, of another
\* key, damaged ones and text that never was encrypted
StoredValues ==
    LET current == {encrypt_account_key(k) : k \in Plaintexts \ {EmptyStr}}
    IN {EmptyStr} \cup current
       \cup {fernet_encrypt(ForeignKey, k) : k \in Plaintexts \ {EmptyStr}}
       \cup {Symbols(k) : k \in Plaintexts}
       \cup UNION {Truncations(c) \cup Corruptions(c) \cup Insertions(c) : c \in current}

InitCodec ==
    /\ NoOthers
    /\ users = {}
    /\ projects = {}
    /\ groups = {}
    /\ computers = {}
    /\ keys = {}
    /\ attachments = {}
    /\ last = Idle
    /\ threads = << >>

Encrypt ==
    \E k \in Plaintexts :
        /\ last' = [op |-> "encrypt", input |-> k, output |-> encrypt_account_key(k)]
        /\ UNCHANGED <<users, computers, projects, keys, attachments, groups, threads, others>>

Decrypt ==
    \E c \in StoredValues :
        /\ last' = [op |-> "decrypt", input |-> c, output |-> decrypt_account_key(c)]
        /\ UNCHANGED <<users, computers, projects, keys, attachments, groups, threads, others>>

NextCodec ==
    \/ Encrypt
    \/ Decrypt

SpecCodec == InitCodec /\ [][NextCodec]_vars

\* The ciphertexts encrypt_account_key produces under the current master key
Ciphertexts == {encrypt_account_key(k) : k \in Plaintexts \ {EmptyStr}}

RoundTrip ==
    (last.op = "encrypt" /\ last.input # EmptyStr) => decrypt_account_key(last.output) = last.input

EmptyStaysEmpty ==
    /\ (last.op = "encrypt" /\ last.input = EmptyStr) => last.output = EmptyStr
    /\ (last.op = "decrypt" /\ last.input = EmptyStr) => last.output = EmptyStr

FailsClosed ==
    (last.op = "decrypt" /\ last.input \notin Ciphertexts) => last.output = EmptyStr

\* C14: decrypt_account_key(encrypt_account_key(k)) = k for every non-empty k;
\* both functions map the empty string to the empty string; and for every input
\* that is no ciphertext produced under the current master key (corrupt, truncated
\* or of another key) decrypt_account_key returns the empty string.
C14_AccountKeyCodec == RoundTrip /\ EmptyStaysEmpty /\ FailsClosed

\* The same with inputs compared after base64 decoding: an input whose decoded
\* bytes are no token of the current key decrypts to the empty string.
C14_FailsClosedOnDecodedBytes ==
    /\ RoundTrip
    /\ EmptyStaysEmpty
    /\ (last.op = "decrypt" /\ urlsafe_b64decode(last.input) \notin Ciphertexts) =>
           last.output = EmptyStr

\* A damaged ciphertext was decrypted to nothing.
C14_WitnessRejected ==
    /\ last.op = "decrypt"
    /\ \E c \in Ciphertexts : last.input \in Truncations(c) \cup Corruptions(c)
    /\ last.output = EmptyStr


-----------------------------------------------------------------------------
(* The protocol hash on its own *)

MaxNameLen == 3

NameChars == {"a", "A", "b", "B", "1"}

PasswordSecret == <<"s", "e", "c", "r", "e", "t">>

\* Usernames of at most MaxNameLen characters in either case, and alice's
HashNames ==
    UNION {[1..n -> NameChars] : n \in 1..MaxNameLen} \cup {NameAlice, NameAliceCapital}

HashPasswords == {PasswordSecret, PasswordA}

Hash ==
    \E u \in HashNames, p \in HashPasswords :
        /\ last' = [op |-> "hash", username |-> u, password |-> p,
                    output |-> hash_boinc_password(u, p)]
        /\ UNCHANGED <<users, computers, projects, keys, attachments, groups, threads, others>>

NextHash == Hash

SpecHash == InitCodec /\ [][NextHash]_vars

\* The pairs of a capital and its small letter
CasePairs == {<<"A", "a">>, <<"B", "b">>, <<"C", "c">>}

\* u1 and u2 are the same name but for the case of letters
DifferOnlyInCase(u1, u2) ==
    /\ Len(u1) = Len(u2)
    /\ \A i \in 1..Len(u1) :
          \/ u1[i] = u2[i]
          \/ <<u1[i], u2[i]>> \in CasePairs
          \/ <<u2[i], u1[i]>> \in CasePairs

\* C15: hash_boinc_password(u, p) depends on p and lowercase(u) only: usernames
\* that differ only in letter case (or have the same lowercase form) hash to the
\* same value with every password, e.g. "Alice" and "alice" with "secret".
C15_HashFoldsCase ==
    last.op = "hash" =>
        \A u2 \in HashNames :
            (DifferOnlyInCase(last.username, u2) \/ Lower(u2) = Lower(last.username)) =>
                hash_boinc_password(u2, last.password) = last.output

\* "Alice" with "secret" was hashed to what "alice" with "secret" hashes to.
C15_Witness ==
    /\ last.op = "hash"
    /\ last.username = NameAliceCapital
    /\ last.password = PasswordSecret
    /\ last.output = hash_boinc_password(NameAlice, PasswordSecret)


-----------------------------------------------------------------------------
(* Reconciliation: the directives of the attachments that stay or complete *)

\* An attachment whose project is enabled and whose user has a key row for it
Serviceable(a) == EnabledBefore(a) /\ KeyBefore(a) # None

\* The client no longer reports a project it was told to detach from when done
SilentDetachCase(a) == Serviceable(a) /\ ~ReportedByClient(a) /\ a.detach_when_done

\* C16: an attachment whose project is enabled and whose key is present, whose
\* URL the request does not report and whose detach_when_done is set, is deleted by
\* the reconciliation and the reply carries no directive for its project.
C16_SilentDetachCompletion ==
    Reconciled =>
        \A a \in Before : SilentDetachCase(a) => Gone(a) /\ DirectivesFor(a) = {}

\* Such an attachment, next to one that got a directive
C16_Witness ==
    /\ Reconciled
    /\ \E a \in Before : SilentDetachCase(a)
    /\ last.reply.accounts # << >>


\* The key passes the weak-key gate: it has no "_" or the client is new enough
PassesWeakKeyGate(a) == ~(Contains(The(KeyBefore(a)).account_key, "_") /\ ClientTooOld)

\* An attachment that is due an attach directive
FullResendCase(a) == Serviceable(a) /\ ~SilentDetachCase(a) /\ PassesWeakKeyGate(a)

IndicesFor(a) == {j \in DOMAIN last.reply.accounts : last.reply.accounts[j].url = UrlOf(a)}

\* The request of the last call with other settings in its <project> blocks: the
\* URLs and the account keys are the same
ReportedSettings ==
    {[resource_share |-> 50, suspended_via_gui |-> TRUE, dont_request_more_work |-> TRUE,
      detach_when_done |-> FALSE],
     [resource_share |-> 100, suspended_via_gui |-> FALSE, dont_request_more_work |-> FALSE,
      detach_when_done |-> TRUE]}

WithReportedSettings(body, settings) ==
    [body EXCEPT !.request.projects =
        [i \in DOMAIN @ |-> [url |-> @[i].url, account_key |-> @[i].account_key] @@ settings]]

\* C17: every attachment whose project is enabled, whose key is present and
\* passes the weak-key gate and which is not silently completed gets exactly one
\* directive, an attach directive with the project's URL and signed URL and the
\* attachment's resource share, suspended, dont_request_more_work and
\* detach_when_done; and the same request with other settings reported by the
\* client (so that attachment_settings_changed answers otherwise) gets the same
\* directives.
C17_FullResend ==
    Reconciled =>
        /\ \A a \in Before : FullResendCase(a) =>
              /\ Cardinality(IndicesFor(a)) = 1
              /\ \A acc \in DirectivesFor(a) :
                    /\ NotDetach(acc)
                    /\ acc.url = The(attachment_project(last.pre, a)).url
                    /\ acc.url_signature = The(attachment_project(last.pre, a)).signed_url
                    /\ acc.resource_share = Some(a.resource_share)
                    /\ acc.suspend = Some(a.suspended)
                    /\ acc.dont_request_more_work = Some(a.dont_request_more_work)
                    /\ acc.detach_when_done = Some(a.detach_when_done)
        /\ \A settings \in ReportedSettings :
              \A o \in rpc(last.pre, WithReportedSettings(last.body, settings)) :
                  o.reply.accounts = last.reply.accounts

\* The client reported an attachment with the stored settings and key, and one
\* with other settings: both got their directive.
C17_Witness ==
    /\ Reconciled
    /\ \E a, b \in Before :
          /\ FullResendCase(a) /\ ReportedByClient(a)
          /\ FullResendCase(b) /\ ReportedByClient(b)
          /\ ~attachment_settings_changed(The(KeyBefore(a)).account_key, a,
                                          The(client_project(last.body.request, UrlOf(a))))
          /\ attachment_settings_changed(The(KeyBefore(b)).account_key, b,
                                         The(client_project(last.body.request, UrlOf(b))))
          /\ DirectivesFor(a) # {} /\ DirectivesFor(b) # {}


\* The account key the client reported for the project of a (None when it reported
\* none or not the project)
ReportedKey(a) ==
    IF ReportedByClient(a) THEN The(client_project(last.body.request, UrlOf(a))).account_key
    ELSE None

ServerKey(a) == The(KeyBefore(a)).account_key

\* The attach directives of the reply for the project of a
AttachDirectivesFor(a) == {acc \in DirectivesFor(a) : NotDetach(acc)}

\* C18: an attach directive for a project the client reports has the empty
\* authenticator exactly when the server's plaintext key is the key the client
\* reported for it, and the server's plaintext key otherwise; an attach directive
\* for a project the client does not report has the server's plaintext key.
C18_AuthenticatorClearing ==
    Reconciled =>
        \A a \in Before : \A acc \in AttachDirectivesFor(a) :
            IF ReportedByClient(a)
            THEN /\ acc.authenticator = EmptyStr <=> ReportedKey(a) = Some(ServerKey(a))
                 /\ ReportedKey(a) # Some(ServerKey(a)) => acc.authenticator = ServerKey(a)
            ELSE acc.authenticator = ServerKey(a)

\* The same for the attachments whose key decrypts to a key that is not empty
C18_ClearingOfNonEmptyKeys ==
    Reconciled =>
        \A a \in Before : \A acc \in AttachDirectivesFor(a) :
            ServerKey(a) # EmptyStr =>
                IF ReportedByClient(a)
                THEN /\ acc.authenticator = EmptyStr <=> ReportedKey(a) = Some(ServerKey(a))
                     /\ ReportedKey(a) # Some(ServerKey(a)) => acc.authenticator = ServerKey(a)
                ELSE acc.authenticator = ServerKey(a)

\* The client's key was the server's and the authenticator was cleared, and
\* another reported project got the server's key.
C18_WitnessCleared ==
    /\ Reconciled
    /\ \E a, b \in Before :
          /\ \E acc \in AttachDirectivesFor(a) :
                acc.authenticator = EmptyStr /\ ReportedKey(a) = Some(ServerKey(a))
          /\ \E acc \in AttachDirectivesFor(b) :
                /\ ReportedByClient(b) /\ ReportedKey(b) # Some(ServerKey(b))
                /\ acc.authenticator = ServerKey(b) /\ ServerKey(b) # EmptyStr


\* The client's version parses and is 7.0.0 or later
ModernClient ==
    /\ parse_client_version(last.body.request.client_version) # None
    /\ ~VersionLess(last.body.request.client_version, <<7, 0, 0>>)

\* The names of the resources an attachment excludes
ExcludedNames(a) ==
    {n \in {"CPU", "NVIDIA", "ATI", "intel_gpu"} :
        \/ n = "CPU" /\ a.no_cpu
        \/ n = "NVIDIA" /\ a.no_gpu_nvidia
        \/ n = "ATI" /\ a.no_gpu_amd
        \/ n = "intel_gpu" /\ a.no_gpu_intel}

FlagSent(flag) == IF flag THEN Some(TRUE) ELSE None

\* C19: an attach directive for a client of version 7.0.0 or later carries the
\* exclusions as the list no_rsc only, with exactly the names of the attachment's
\* set flags (CPU, NVIDIA, ATI, intel_gpu) and none of no_cpu, no_cuda, no_ati; for
\* an older client or one whose version does not parse it carries no_cpu, no_cuda,
\* no_ati for the set flags and an empty no_rsc.  No directive carries both.
C19_ResourceExclusionDialect ==
    Reconciled =>
        \A a \in Before : \A acc \in AttachDirectivesFor(a) :
            /\ IF ModernClient
               THEN /\ {acc.no_rsc[i] : i \in DOMAIN acc.no_rsc} = ExcludedNames(a)
                    /\ Len(acc.no_rsc) = Cardinality(ExcludedNames(a))
                    /\ acc.no_cpu = None /\ acc.no_cuda = None /\ acc.no_ati = None
               ELSE /\ acc.no_rsc = << >>
                    /\ acc.no_cpu = FlagSent(a.no_cpu)
                    /\ acc.no_cuda = FlagSent(a.no_gpu_nvidia)
                    /\ acc.no_ati = FlagSent(a.no_gpu_amd)
            /\ ~(/\ acc.no_rsc # << >>
                 /\ (acc.no_cpu # None \/ acc.no_cuda # None \/ acc.no_ati # None))

\* A client of 7.0.0 was sent the list for an attachment with exclusions.
C19_Witness ==
    /\ Reconciled
    /\ ModernClient
    /\ \E a \in Before : \E acc \in AttachDirectivesFor(a) : Len(acc.no_rsc) = 3

\* A client whose version does not parse was sent the booleans.
C19_WitnessLegacy ==
    /\ Reconciled
    /\ parse_client_version(last.body.request.client_version) = None
    /\ \E a \in Before : \E acc \in AttachDirectivesFor(a) :
          acc.no_cpu = Some(TRUE) /\ acc.no_ati = Some(TRUE)


\* The detach directives of the reply
DetachDirectives ==
    {last.reply.accounts[i] : i \in {j \in DOMAIN last.reply.accounts :
                                        last.reply.accounts[j].detach # None}}

\* C20: every detach directive of a reconciliation carries a project's URL and
\* signed URL, the empty authenticator and detach = true, and nothing else: no
\* resource share, suspend, dont_request_more_work, detach_when_done, no
\* resource exclusion, whatever the attachment's settings and the client version.
C20_DetachDirectiveShape ==
    Reconciled =>
        \A acc \in DetachDirectives :
            /\ \E p \in last.pre.projects : acc.url = p.url /\ acc.url_signature = p.signed_url
            /\ acc.authenticator = EmptyStr
            /\ acc.detach = Some(TRUE)
            /\ acc.resource_share = None
            /\ acc.suspend = None
            /\ acc.dont_request_more_work = None
            /\ acc.detach_when_done = None
            /\ acc.no_cpu = None /\ acc.no_cuda = None /\ acc.no_ati = None
            /\ acc.no_rsc = << >>
            /\ acc.update = None /\ acc.abort_not_started = None

\* A detach directive for an attachment with settings of its own, sent to a
\* client of 7.0.0
C20_Witness ==
    /\ Reconciled
    /\ ModernClient
    /\ \E a \in Before : a.resource_share = 50 /\ a.no_cpu /\ DetachSent(a)


-----------------------------------------------------------------------------
(* Reconciliation: projects the client reports and the computer is not attached to *)

\* The projects of the request that the server knows and the requesting computer
\* has no attachment to
ReportedWithoutAttachment ==
    {p \in last.pre.projects :
        /\ client_project(last.body.request, p.url) # None
        /\ \A a \in Before : a.project_id # p.id}

\* C21: for every project of the request whose URL is a project's the server
\* knows and to which the requesting computer has no attachment, the reply's
\* directives hold a detach directive of that URL.
C21_DetachReportedWithoutAttachment ==
    Reconciled =>
        \A p \in ReportedWithoutAttachment :
            \E i \in DOMAIN last.reply.accounts :
                /\ last.reply.accounts[i].url = p.url
                /\ last.reply.accounts[i].detach = Some(TRUE)

\* What the code does for them: the reply holds no directive of their URL.
C21_NothingSentForThem ==
    Reconciled =>
        \A p \in ReportedWithoutAttachment :
            \A i \in DOMAIN last.reply.accounts : last.reply.accounts[i].url # p.url

C21_WitnessReported == Reconciled /\ ReportedWithoutAttachment # {}


-----------------------------------------------------------------------------
(* Reconciliation: one attachment's trouble and the other attachments *)

\* The attachment a of the last request was skipped at the weak-key gate
SkippedAtWeakKeyGate(a) == WeakKeyAttachment(a) /\ ClientTooOld

\* A skipped attachment leaves the others their directives: the reply is a success
\* reply and its directives are those of the same request on a database without
\* the skipped attachment.
C22_WeakKeySkipIsolated ==
    Reconciled =>
        \A a \in Before : SkippedAtWeakKeyGate(a) =>
            /\ Succeeded
            /\ \A o \in rpc([last.pre EXCEPT !.attachments = @ \ {a}], last.body) :
                  o.reply.accounts = last.reply.accounts

C22_WitnessSkipped ==
    /\ Reconciled
    /\ \E a \in Before : SkippedAtWeakKeyGate(a)
    /\ last.reply.accounts # << >>

\* The attachment thread t loaded as its n-th has vanished since: another request
\* deleted its row
Vanished(t, n) ==
    /\ StoredAttachment(DB, threads[t].todo[n]) = {}
    /\ threads[t].todo[n] \notin threads[t].deleted

\* C22: a request that began to reconcile is answered with a success reply,
\* whatever becomes of one of its attachments meanwhile, and the reply holds for
\* every attachment that did not vanish the directive that attachment is due.
C22_PerProjectIsolation ==
    \A t \in Threads :
        (threads[t].pc = "done" /\ threads[t].seen # None) =>
            /\ ~threads[t].raised
            /\ threads[t].reply.error_num = None
            /\ \A n \in DOMAIN threads[t].todo :
                  LET due == process_attachment(The(threads[t].seen), The(threads[t].user),
                                                threads[t].todo[n],
                                                The(threads[t].body).request).account
                  IN (due # None /\ ~Vanished(t, n)) =>
                         \E i \in DOMAIN threads[t].reply.accounts :
                             threads[t].reply.accounts[i] = The(due)


-----------------------------------------------------------------------------
(* Preference groups: group calls of concurrent requests.  Every statement that
   commits is a step of its own: _unset_existing_default commits the cleared
   default, BaseService.create and BaseService.update commit the new one. *)

\* A group call not yet made
NoCall ==
    [pc |-> "idle", op |-> "", user_id |-> None, name |-> "", object_id |-> 0,
     set_default |-> FALSE, cleared |-> {}, status |-> ""]

\* The call has returned, or raised status
CallOver(call, status) == [call EXCEPT !.pc = "done", !.status = status]

\* PreferenceGroupService.create up to its first commit: the name check
BeginCreate(t) ==
    /\ threads[t].pc = "idle"
    /\ \E group \in SomeGroups, is_default \in BOOLEAN :
          LET me == [threads[t] EXCEPT !.op = "create", !.user_id = group[1],
                                       !.name = group[2], !.set_default = is_default]
          IN IF get_by_name(DB, group[2], group[1]) # {}
             THEN Step(t, CallOver(me, "409"), DB)
             ELSE Step(t, [me EXCEPT !.pc = IF is_default THEN "unset" ELSE "write"], DB)

\* PreferenceGroupService.update(object_id, is_default) up to its first commit;
\* the name is left alone
BeginUpdate(t) ==
    /\ threads[t].pc = "idle"
    /\ \E g \in groups, is_default \in BOOLEAN :
          Step(t, [threads[t] EXCEPT !.op = "update", !.user_id = g.user_id,
                                     !.name = g.name, !.object_id = g.id,
                                     !.set_default = is_default,
                                     !.pc = IF is_default THEN "unset" ELSE "write"], DB)

\* _unset_existing_default and its commit
UnsetDefault(t) ==
    /\ threads[t].pc = "unset"
    /\ \E db \in unset_existing_default(DB, threads[t].user_id) :
          Step(t, [threads[t] EXCEPT !.pc = "write",
                                     !.cleared = {g.id : g \in groups \ db.groups}], db)

\* BaseService.create and BaseService.update with their commit; update finds the
\* row again and returns None when it is gone
CommitGroup(t) ==
    /\ threads[t].pc = "write"
    /\ LET me == threads[t]
           id == FreshId(GroupIds, groups)
           data == PreferenceGroupCreate(me.user_id, me.name, me.set_default)
       IN IF me.op = "create"
          THEN /\ id # None
               /\ Step(t, CallOver(me, ""),
                       [DB EXCEPT !.groups = @ \cup {[id |-> The(id)] @@ data}])
          ELSE IF get_preference_group(DB, me.object_id) = {}
          THEN Step(t, CallOver(me, "not found"), DB)
          ELSE Step(t, CallOver(me, ""),
                    [DB EXCEPT !.groups =
                        {IF g.id = me.object_id
                         THEN sqlmodel_update(g, PreferenceGroupUpdate(None, Some(me.set_default)))
                         ELSE g : g \in @}])

\* PreferenceGroupService.delete(object_id): one commit
DeleteCall(t) ==
    /\ threads[t].pc = "idle"
    /\ \E g \in groups :
          \E o \in delete_preference_group(DB, g.id) :
              Step(t, CallOver([threads[t] EXCEPT !.op = "delete", !.user_id = g.user_id,
                                                  !.object_id = g.id], o.status), o.db)

\* The groups there are before the calls: none, the global default alone, or with
\* a second global group
GroupsBefore ==
    {{},
     {[id |-> 1] @@ PreferenceGroupCreate(None, DefaultName, TRUE)},
     {[id |-> 1] @@ PreferenceGroupCreate(None, DefaultName, TRUE),
      [id |-> 2] @@ PreferenceGroupCreate(None, "Other", FALSE)}}

InitDefaults ==
    /\ NoOthers
    /\ users = InitUsers
    /\ projects = InitProjects
    /\ groups \in GroupsBefore
    /\ computers = {}
    /\ keys = {}
    /\ attachments = {}
    /\ last = Idle
    /\ threads = [t \in Threads |-> NoCall]

NextDefaults ==
    \E t \in Threads :
        \/ BeginCreate(t)
        \/ BeginUpdate(t)
        \/ UnsetDefault(t)
        \/ CommitGroup(t)
        \/ DeleteCall(t)

SpecDefaults == InitDefaults /\ [][NextDefaults]_vars

\* A call cleared a default and has committed that, and its own group is not the
\* default: the call is under way, or it ended without making it one
ClearedWithoutNew(t) ==
    /\ threads[t].cleared # {}
    /\ ~(threads[t].pc = "done" /\ threads[t].status = "")

\* C23: setting a new default is one unit of work: no committed state has the
\* previous default cleared and the new one not in place, whether the call is
\* under way or has failed, and concurrent calls leave no scope two defaults.
C23_SetDefaultIsOneUnit ==
    /\ \A t \in Threads : ~ClearedWithoutNew(t)
    /\ \A scope \in Scopes : Cardinality(defaults_of(DB, scope)) <= 1

\* The parts of C23 one by one
C23_NoClearedInterval == \A t \in Threads : ~(threads[t].pc = "write" /\ threads[t].cleared # {})

C23_FailureKeepsDefault == \A t \in Threads : ~(threads[t].pc = "done" /\ threads[t].cleared # {} /\ threads[t].status # "")

C23_ConcurrentSingleDefault == \A scope \in Scopes : Cardinality(defaults_of(DB, scope)) <= 1


-----------------------------------------------------------------------------
(* The computer a request resolves to *)

\* The user the last request authenticated as
AuthenticatedUser ==
    authenticate_boinc_client(last.pre, last.body.request.name, last.body.request.password_hash)

\* The computers of others that the last request names by uuid, host CPID or
\* previous CPID
NamedComputersOfOthers ==
    {c \in last.pre.computers :
        /\ \A u \in AuthenticatedUser : c.user_id # u.id
        /\ \/ last.body.request.uuid = Some(c.id)
           \/ last.body.request.host_cpid = c.cpid
           \/ last.body.request.previous_host_cpid = c.cpid}

\* C24: the computer a request resolves to is owned by the authenticated user, the
\* reply's uuid is that computer's, and no computer of another user is changed or
\* returned, whatever uuid and CPIDs the request carries.
C24_ResolvedComputerIsOwned ==
    (Answered /\ AuthenticatedUser # {}) =>
        /\ \A c \in last.pre.computers :
              c.user_id # The(AuthenticatedUser).id => c \in computers
        /\ last.computer # None =>
              /\ \E c \in computers : /\ c.id = The(last.computer)
                                      /\ c.user_id = The(AuthenticatedUser).id
              /\ ~last.raised => last.reply.uuid = last.computer

C24_WitnessNamesAnothersComputer ==
    /\ Answered
    /\ last.computer # None
    /\ \E c \in NamedComputersOfOthers : last.body.request.uuid = Some(c.id)

C24_WitnessNamesAnothersCpid ==
    /\ Answered
    /\ last.computer # None
    /\ \E c \in NamedComputersOfOthers : last.body.request.host_cpid = c.cpid


\* The computers of the authenticated user that had the request's host CPID
OwnWithHostCpid ==
    {c \in last.pre.computers :
        /\ c.user_id = The(AuthenticatedUser).id
        /\ c.cpid = last.body.request.host_cpid}

\* C25: no user has two computers of one CPID; a request of a user with no uuid
\* and the host CPID of a computer of theirs resolves to that computer, whoever
\* else owns a computer of that CPID.
C25_OneComputerPerUserAndCpid ==
    /\ ComputerConstraint(computers)
    /\ (Answered /\ AuthenticatedUser # {} /\ last.body.request.uuid = None) =>
          \A c \in OwnWithHostCpid : ~last.raised /\ last.computer = Some(c.id)

\* The parts of C25 one by one
C25_UniquePerUser == ComputerConstraint(computers)

C25_NoCpidSharedWithinUser ==
    \A a, b \in computers : (a.user_id = b.user_id /\ a.id # b.id) => a.cpid # b.cpid

C25_AloneWithCpidResolves ==
    (Answered /\ AuthenticatedUser # {} /\ last.body.request.uuid = None) =>
        \A c \in OwnWithHostCpid :
            (\A d \in last.pre.computers : d.cpid = c.cpid => d = c) =>
                ~last.raised /\ last.computer = Some(c.id)


\* The computer of the authenticated user that the request's uuid names
OwnByUuid ==
    {c \in last.pre.computers :
        /\ c.user_id = The(AuthenticatedUser).id
        /\ last.body.request.uuid = Some(c.id)}

\* The computers of the authenticated user that had the request's previous CPID
OwnWithPreviousCpid ==
    {c \in last.pre.computers :
        /\ c.user_id = The(AuthenticatedUser).id
        /\ last.body.request.previous_host_cpid # ""
        /\ c.cpid = last.body.request.previous_host_cpid}

\* The computer the last request resolved to has the request's host CPID now
CpidMigrated ==
    \E c \in computers : c.id = The(last.computer) /\ c.cpid = last.body.request.host_cpid

\* A uuid of a computer of the user resolves to that record, overwrites its CPID
\* and is echoed.
UuidResolves ==
    \A c \in OwnByUuid :
        /\ ~last.raised
        /\ last.computer = Some(c.id)
        /\ last.reply.uuid = Some(c.id)
        /\ CpidMigrated

\* With no usable uuid and no computer of the user with the host CPID, a computer
\* of the user with the previous CPID is resolved and takes the host CPID.
PreviousCpidResolves ==
    (OwnByUuid = {} /\ OwnWithHostCpid = {}) =>
        \A c \in OwnWithPreviousCpid :
            /\ ~last.raised
            /\ last.computer = Some(c.id)
            /\ CpidMigrated

\* A record is created only when all three lookups fail.
CreatedOnlyWhenNoneFound ==
    (last.computer # None /\ \A c \in last.pre.computers : c.id # The(last.computer)) =>
        OwnByUuid = {} /\ OwnWithHostCpid = {} /\ OwnWithPreviousCpid = {}

\* C26: the identity of a computer outlives a change of CPID: uuid first, then host
\* CPID, then previous CPID, and a new record only when all three find nothing.
C26_DurableIdentity ==
    (Answered /\ AuthenticatedUser # {}) =>
        /\ UuidResolves
        /\ PreviousCpidResolves
        /\ CreatedOnlyWhenNoneFound

\* The parts of C26 one by one
C26_UuidResolves == (Answered /\ AuthenticatedUser # {}) => UuidResolves

C26_PreviousCpidResolves == (Answered /\ AuthenticatedUser # {}) => PreviousCpidResolves

C26_CreatedOnlyWhenNoneFound == (Answered /\ AuthenticatedUser # {}) => CreatedOnlyWhenNoneFound


-----------------------------------------------------------------------------
(* Requests that fail authentication *)

\* The last request was refused for its name or its password
AuthenticationFailed ==
    /\ Answered
    /\ last.reply.error_num \in {Some(ERR_BAD_USER_NAME), Some(ERR_BAD_PASSWD)}

\* C27: a request refused for its name or its password changes no stored row, and
\* its reply has no directive, no global preferences, no uuid and no repeat_sec.
C27_FailedAuthenticationHasNoEffect ==
    AuthenticationFailed =>
        /\ DB = last.pre
        /\ last.reply.accounts = << >>
        /\ last.reply.global_preferences = None
        /\ last.reply.uuid = None
        /\ last.reply.repeat_sec = None

\* A wrong password for a user whose computer the request names by uuid
C27_WitnessBadPassword ==
    /\ AuthenticationFailed
    /\ last.reply.error_num = Some(ERR_BAD_PASSWD)
    /\ \E u \in get_by_username(last.pre, last.body.request.name), c \in last.pre.computers :
          c.user_id = u.id /\ last.body.request.uuid = Some(c.id)

\* A name no user has, from a host whose CPID a computer has
C27_WitnessBadUserName ==
    /\ AuthenticationFailed
    /\ last.reply.error_num = Some(ERR_BAD_USER_NAME)
    /\ \E c \in last.pre.computers : c.cpid = last.body.request.host_cpid


-----------------------------------------------------------------------------
(* SessionService and the endpoints of /api/v1/auth *)

\* Days a refresh token lasts, in ticks of the model's clock
RefreshTokenExpireDays == 1

\* The model's clock stops here
MaxTime == 2

\* Refresh tokens drawn at most: generate_refresh_token() never draws one twice,
\* the n-th token drawn is n
MaxTokens == 3

Tokens == 1..MaxTokens

\* hash_refresh_token(token): sha256(token).hexdigest()
hash_refresh_token(token) == <<"sha256", token>>

UserSession(id, user_id, token, time) ==
    [id |-> id, user_id |-> user_id, refresh_token_hash |-> hash_refresh_token(token),
     refresh_token_expires_at |-> time + RefreshTokenExpireDays, is_active |-> TRUE]

\* create_session: the row with the hash of the token drawn for it
create_session(rows, id, user_id, token, time) == rows \cup {UserSession(id, user_id, token, time)}

\* get_session_by_refresh_token(refresh_token) at time
get_session_by_refresh_token(rows, refresh_token, time) ==
    {s \in rows : /\ s.refresh_token_hash = hash_refresh_token(refresh_token)
                  /\ s.is_active
                  /\ s.refresh_token_expires_at > time}

\* revoke_session(session_id)
revoke_session(rows, session_id) ==
    {IF s.id = session_id THEN [s EXCEPT !.is_active = FALSE] ELSE s : s \in rows}

\* revoke_all_user_sessions(user_id, except_session_id)
revoke_all_user_sessions(rows, user_id, except_session_id) ==
    {IF s.user_id = user_id /\ s.is_active /\ Some(s.id) # except_session_id
     THEN [s EXCEPT !.is_active = FALSE] ELSE s : s \in rows}

\* update_session_access that keeps the stored hash
update_session_access_keeping_hash(rows, session_id, refresh_token, time) ==
    {IF s.id = session_id /\ s.is_active
     THEN [s EXCEPT !.refresh_token_expires_at = time + RefreshTokenExpireDays]
     ELSE s : s \in rows}

\* update_session_access(session_id, refresh_token, ip_address) at time
update_session_access(rows, session_id, refresh_token, time) ==
    {IF s.id = session_id /\ s.is_active
     THEN [s EXCEPT !.refresh_token_hash = hash_refresh_token(refresh_token),
                    !.refresh_token_expires_at = time + RefreshTokenExpireDays]
     ELSE s : s \in rows}

\* cleanup_expired_sessions() at time
cleanup_expired_sessions(rows, time) ==
    {IF s.refresh_token_expires_at <= time THEN [s EXCEPT !.is_active = FALSE] ELSE s
     : s \in rows}

\* cleanup_inactive_sessions() once the retention of every inactive session is over
cleanup_inactive_sessions(rows) == {s \in rows : s.is_active}

\* get_session_by_id_and_user(session_id, user_id)
get_session_by_id_and_user(rows, session_id, user_id) ==
    {s \in rows : s.id = session_id /\ s.user_id = user_id /\ s.is_active}


\* What the auth calls have done so far: the last call, the token it was given,
\* the session it accepted, the status it answered with, the row it found of the
\* session the token was drawn for and the time, and the history: issued[n] is the
\* session the n-th token was drawn for, revoked the sessions revoked at any time.
NoAuthCall ==
    [op |-> "none", token |-> None, accepted |-> None, status |-> 200, pre |-> {},
     at |-> 0, issued |-> << >>, revoked |-> {}]

AuthCall(op, token, accepted, status, issued, revoked) ==
    [op |-> op, token |-> token, accepted |-> accepted, status |-> status,
     pre |-> {s \in sessions : /\ token # None
                               /\ The(token) \in DOMAIN last.issued
                               /\ s.id = last.issued[The(token)]},
     at |-> IF token # None THEN now ELSE 0,
     issued |-> issued, revoked |-> last.revoked \cup revoked]

\* The sessions a call turned inactive or deleted
Ended(rows) == {s.id : s \in {r \in sessions : r.is_active}} \ {s.id : s \in {r \in rows : r.is_active}}

SessionStep(rows, call) ==
    /\ sessions' = rows
    /\ last' = call
    /\ UNCHANGED <<users, computers, projects, keys, attachments, groups, threads,
                   invite_codes, now, clients>>

\* uuid4() of a new session: an id no session had
NewSessionId == Cardinality({last.issued[n] : n \in DOMAIN last.issued}) + 1

\* generate_refresh_token(): a token never drawn
NewToken == Len(last.issued) + 1

\* UserService.authenticate(username, password)
authenticate(db, username, password) ==
    {u \in get_by_username(db, username) :
        u.is_active /\ verify_password(password, u.password_hash)}

\* POST /api/v1/auth/login
Login ==
    /\ NewToken \in Tokens
    /\ \E name \in {NameAlice, NameBob}, password \in {PasswordA, PasswordB} :
          LET user == authenticate(DB, name, password)
          IN IF user = {}
             THEN SessionStep(sessions, AuthCall("login", None, None, 401, last.issued, {}))
             ELSE SessionStep(create_session(sessions, NewSessionId, The(user).id, NewToken, now),
                              AuthCall("login", None, Some(NewSessionId), 200,
                                       Append(last.issued, NewSessionId), {}))

\* POST /api/v1/auth/refresh with the cookie refresh_token
Refresh ==
    /\ NewToken \in Tokens
    /\ \E refresh_token \in {None} \cup {Some(t) : t \in Tokens} :
          LET found == IF refresh_token = None THEN {}
                       ELSE get_session_by_refresh_token(sessions, The(refresh_token), now)
          IN \E session \in IF found = {} THEN {None} ELSE {Some(s) : s \in found} :
                IF session = None
                THEN SessionStep(sessions,
                                 AuthCall("refresh", refresh_token, None, 401, last.issued, {}))
                ELSE IF \A u \in users : u.id = The(session).user_id => ~u.is_active
                THEN SessionStep(revoke_session(sessions, The(session).id),
                                 AuthCall("refresh", refresh_token, None, 401, last.issued,
                                          {The(session).id}))
                ELSE SessionStep(update_session_access(sessions, The(session).id, NewToken, now),
                                 AuthCall("refresh", refresh_token, Some(The(session).id), 200,
                                          Append(last.issued, The(session).id), {}))

\* POST /api/v1/auth/logout with the access token of session_id
Logout ==
    \E s \in sessions :
        SessionStep(revoke_session(sessions, s.id),
                    AuthCall("logout", None, None, 200, last.issued, {s.id}))

\* POST /api/v1/auth/logout-all by the user of the session except_session_id
LogoutAll ==
    \E s \in sessions :
        /\ s.is_active
        /\ LET rows == revoke_all_user_sessions(sessions, s.user_id, Some(s.id))
           IN SessionStep(rows, AuthCall("logout-all", None, None, 200, last.issued, Ended(rows)))

\* DELETE /api/v1/auth/sessions/{session_id} by a user
RevokeSession ==
    \E s \in sessions, u \in users :
        IF get_session_by_id_and_user(sessions, s.id, u.id) = {}
        THEN SessionStep(sessions, AuthCall("revoke", None, None, 404, last.issued, {}))
        ELSE SessionStep(revoke_session(sessions, s.id),
                         AuthCall("revoke", None, None, 200, last.issued, {s.id}))

\* The periodic cleanup: expired sessions are turned inactive
CleanupExpired ==
    LET rows == cleanup_expired_sessions(sessions, now)
    IN /\ rows # sessions
       /\ SessionStep(rows, AuthCall("cleanup", None, None, 200, last.issued, Ended(rows)))

\* The periodic cleanup: inactive sessions are deleted
CleanupInactive ==
    LET rows == cleanup_inactive_sessions(sessions)
    IN /\ rows # sessions
       /\ SessionStep(rows, AuthCall("cleanup", None, None, 200, last.issued, {}))

\* An administrator deactivates a user
DeactivateUser ==
    \E u \in users :
        /\ u.is_active
        /\ u.username = NameBob
        /\ users' = (users \ {u}) \cup {[u EXCEPT !.is_active = FALSE]}
        /\ last' = AuthCall("deactivate", None, None, 200, last.issued, {})
        /\ UNCHANGED <<computers, projects, keys, attachments, groups, threads, others>>

\* A day passes
Tick ==
    /\ now < MaxTime
    /\ now' = now + 1
    /\ last' = AuthCall("tick", None, None, 200, last.issued, {})
    /\ UNCHANGED <<users, computers, projects, keys, attachments, groups, threads,
                   sessions, invite_codes, clients>>

InitSessions ==
    /\ users = InitUsers
    /\ projects = InitProjects
    /\ groups = {}
    /\ computers = {}
    /\ keys = {}
    /\ attachments = {}
    /\ threads = << >>
    /\ sessions = {}
    /\ invite_codes = {}
    /\ now = 0
    /\ clients = << >>
    /\ last = NoAuthCall

NextSessions ==
    \/ Login
    \/ Refresh
    \/ Logout
    \/ LogoutAll
    \/ RevokeSession
    \/ CleanupExpired
    \/ CleanupInactive
    \/ DeactivateUser
    \/ Tick

SpecSessions == InitSessions /\ [][NextSessions]_vars

\* The session was active and unexpired when the last call found it
WasLive(id) ==
    \E s \in last.pre : s.id = id /\ s.is_active /\ s.refresh_token_expires_at > last.at

\* The tokens drawn for a session before the last call drew one
DrawnBefore(id) ==
    {n \in DOMAIN last.issued : last.issued[n] = id} \ {Len(last.issued)}

\* C28: a refresh is accepted only for the token drawn last for its session, and
\* only while the session is active, unexpired and was never revoked; so a token
\* is refused once a refresh has replaced it and every token of a session is
\* refused once the session is revoked.  A revoked session is never active again.
C28_RefreshTokenValidity ==
    /\ (last.op = "refresh" /\ last.accepted # None) =>
          /\ The(last.token) \in DrawnBefore(The(last.accepted))
          /\ \A n \in DrawnBefore(The(last.accepted)) : n <= The(last.token)
          /\ WasLive(The(last.accepted))
          /\ The(last.accepted) \notin last.revoked
    /\ \A s \in sessions : s.id \in last.revoked => ~s.is_active

\* A refresh accepted for a session that has been refreshed before
C28_WitnessAcceptedAgain ==
    /\ last.op = "refresh"
    /\ last.accepted # None
    /\ Cardinality(DrawnBefore(The(last.accepted))) >= 2

\* A refresh refused for a token that an accepted refresh has replaced, its session
\* still live
C28_WitnessReplacedTokenRefused ==
    /\ last.op = "refresh"
    /\ last.accepted = None
    /\ last.token # None
    /\ \E n \in DOMAIN last.issued :
          /\ The(last.token) < n
          /\ The(last.token) \in DOMAIN last.issued
          /\ last.issued[n] = last.issued[The(last.token)]
          /\ WasLive(last.issued[n])

\* A refresh refused for the last token of a revoked session that has not expired
C28_WitnessRevokedRefused ==
    /\ last.op = "refresh"
    /\ last.accepted = None
    /\ last.token # None
    /\ The(last.token) \in DOMAIN last.issued
    /\ last.issued[The(last.token)] \in last.revoked
    /\ \A n \in DOMAIN last.issued :
          last.issued[n] = last.issued[The(last.token)] => n <= The(last.token)
    /\ \E s \in last.pre : s.id = last.issued[The(last.token)]
                           /\ s.refresh_token_expires_at > last.at


-----------------------------------------------------------------------------
(* Registration with invite codes: POST /api/v1/users/register of concurrent
   requests, settings.require_invite_code being set.  Every commit is a step. *)

InviteCode(code, is_active) == [code |-> code, is_active |-> is_active, used_by_user_id |-> None]

\* InviteCode.is_used: used_by is not None
is_used(invite_code) == invite_code.used_by_user_id # None

\* InviteCodeService.get_by_code(code)
get_by_code(codes, code) == {c \in codes : c.code = code}

\* InviteCodeService.validate(code)
validate(codes, code) == \E c \in get_by_code(codes, code) : c.is_active /\ ~is_used(c)

\* InviteCodeService.use(code, used_by): the rows it leaves, None when it raises 400
use(codes, code, used_by) ==
    IF ~validate(codes, code)
    THEN None
    ELSE Some({IF c.code = code THEN [c EXCEPT !.used_by_user_id = Some(used_by)] ELSE c
               : c \in codes})

\* A registration not yet received
NoRegistration ==
    [pc |-> "idle", username |-> << >>, invite_code |-> None, admissible |-> FALSE,
     user |-> None, status |-> 0]

Registered(registration, status) == [registration EXCEPT !.pc = "done", !.status = status]

InviteStep(t, registration, rows, codes) ==
    /\ threads' = [threads EXCEPT ![t] = registration]
    /\ users' = rows
    /\ invite_codes' = codes
    /\ UNCHANGED <<computers, projects, keys, attachments, groups, last, sessions, now, clients>>

SomeCodes == {None, Some("code-a"), Some("code-b")}

\* register_user up to user_service.create: the invite code and the username are
\* looked up
Validate(t) ==
    /\ threads[t].pc = "idle"
    /\ \E username \in {NameAlice, NameBob}, code \in SomeCodes :
          LET admissible == code # None /\ validate(invite_codes, The(code))
              me == [threads[t] EXCEPT !.username = username, !.invite_code = code,
                                       !.admissible = admissible]
          IN IF ~admissible
             THEN InviteStep(t, Registered(me, 400), users, invite_codes)
             ELSE IF get_by_username(DB, username) # {}
             THEN InviteStep(t, Registered(me, 409), users, invite_codes)
             ELSE InviteStep(t, [me EXCEPT !.pc = "create"], users, invite_codes)

\* user_service.create(user_data) and its commit
CreateRegistered(t) ==
    /\ threads[t].pc = "create"
    /\ \E object_data \in UserCreate(threads[t].username, PasswordA, "user") :
          \E o \in create(DB, object_data) :
              IF o.status # "ok"
              THEN InviteStep(t, Registered(threads[t], 500), users, invite_codes)
              ELSE InviteStep(t, [threads[t] EXCEPT
                                    !.pc = "use",
                                    !.user = {u.id : u \in o.db.users \ users}],
                              o.db.users, invite_codes)

\* invite_code_service.use(user_data.invite_code, user) and its commit
UseCode(t) ==
    /\ threads[t].pc = "use"
    /\ LET used == use(invite_codes, The(threads[t].invite_code), The(threads[t].user))
       IN IF used = None
          THEN InviteStep(t, Registered(threads[t], 400), users, invite_codes)
          ELSE InviteStep(t, Registered(threads[t], 200), users, The(used))

\* PATCH /api/v1/invite_codes/{id} with is_active false
DeactivateCode ==
    \E c \in invite_codes :
        /\ c.is_active
        /\ invite_codes' = (invite_codes \ {c}) \cup {[c EXCEPT !.is_active = FALSE]}
        /\ UNCHANGED <<users, computers, projects, keys, attachments, groups, last, threads,
                       sessions, now, clients>>

\* No user yet, two invite codes: code-a is active, code-b is active or not
InitInvites ==
    /\ users = {}
    /\ projects = {}
    /\ groups = {}
    /\ computers = {}
    /\ keys = {}
    /\ attachments = {}
    /\ last = Idle
    /\ sessions = {}
    /\ now = 0
    /\ clients = << >>
    /\ \E b \in BOOLEAN : invite_codes = {InviteCode("code-a", TRUE), InviteCode("code-b", b)}
    /\ threads = [t \in Threads |-> NoRegistration]

NextInvites ==
    \/ \E t \in Threads :
          \/ Validate(t)
          \/ CreateRegistered(t)
          \/ UseCode(t)
    \/ DeactivateCode

SpecInvites == InitInvites /\ [][NextInvites]_vars

\* The user a registration created is in the table: the account exists
HasAccount(t) == threads[t].user # None

\* No two accounts were created with one invite code.
SingleUse ==
    \A t1, t2 \in Threads :
        (t1 # t2 /\ HasAccount(t1) /\ HasAccount(t2)) =>
            threads[t1].invite_code # threads[t2].invite_code

\* A registration that is over and has created an account has left its code used
\* by that account.
MarkedUsed ==
    \A t \in Threads :
        (threads[t].pc = "done" /\ HasAccount(t)) =>
            \E c \in get_by_code(invite_codes, The(threads[t].invite_code)) :
                c.used_by_user_id = threads[t].user

\* A code that was inactive or used when the request came creates no account.
NeverAdmitsInvalid == \A t \in Threads : ~threads[t].admissible => ~HasAccount(t)

\* C29: invite codes are single-use under every interleaving of register requests:
\* no two accounts come from one code, every account created has its code marked
\* used by it, and an inactive or used code admits nobody.
C29_InviteCodesSingleUse ==
    /\ SingleUse
    /\ MarkedUsed
    /\ NeverAdmitsInvalid

\* The parts of C29 one by one, and the same for the requests answered with 200 only
C29_SingleUse == SingleUse

C29_MarkedUsed == MarkedUsed

C29_NeverAdmitsInvalid == NeverAdmitsInvalid

C29_NoTwoAnswered200 ==
    \A t1, t2 \in Threads :
        (t1 # t2 /\ threads[t1].status = 200 /\ threads[t2].status = 200) =>
            threads[t1].invite_code # threads[t2].invite_code


-----------------------------------------------------------------------------
(* RateLimitMiddleware *)

\* calls and period of the middleware as the application adds it, scaled down
Calls == 2
Period == 2

\* time.time() stops here
MaxClock == 4

limited_endpoints ==
    {"/api/v1/auth/login", "/api/v1/auth/refresh", "/api/v1/users/register", "/boinc/rpc.php"}

Addresses == {"10.0.0.1", "10.0.0.2"}

Paths == {"/boinc/rpc.php", "/api/v1/auth/login", "/api/v1/health"}

\* A deque that is never cleaned
keep_all(times, time) == times

\* "while self.clients[client_id] and self.clients[client_id][0] < now - self.period:
\* popleft()"
RECURSIVE popleft_old(_, _)
popleft_old(times, time) ==
    IF times # << >> /\ Head(times) < time - Period
    THEN popleft_old(Tail(times), time)
    ELSE times

\* dispatch(request, call_next) at time: the deques it leaves, the status of its
\* response (that of call_next is 200) and whether call_next was called
dispatch(deques, client_id, path, time) ==
    IF path \notin limited_endpoints
    THEN [clients |-> deques, status |-> 200, forwarded |-> TRUE]
    ELSE LET cleaned == [deques EXCEPT ![client_id] = popleft_old(@, time)]
         IN IF Len(cleaned[client_id]) >= Calls
            THEN [clients |-> cleaned, status |-> 429, forwarded |-> FALSE]
            ELSE [clients |-> [cleaned EXCEPT ![client_id] = Append(@, time)],
                  status |-> 200, forwarded |-> TRUE]

\* What the middleware has seen: the last request, its response, the deques and
\* the time it found, and log: for each address the arrival times of all requests
\* to limited paths that were forwarded
NoRequestSeen ==
    [op |-> "none", client_id |-> "", path |-> "", status |-> 200, forwarded |-> FALSE,
     pre |-> << >>, at |-> 0, log |-> [a \in Addresses |-> << >>]]

\* A request arrives
Dispatch ==
    \E client_id \in Addresses, path \in Paths :
        LET o == dispatch(clients, client_id, path, now)
        IN /\ clients' = o.clients
           /\ last' = [op |-> "dispatch", client_id |-> client_id, path |-> path,
                       status |-> o.status, forwarded |-> o.forwarded,
                       pre |-> clients, at |-> now,
                       log |-> IF o.forwarded /\ path \in limited_endpoints
                               THEN [last.log EXCEPT ![client_id] = Append(@, now)]
                               ELSE last.log]
           /\ UNCHANGED <<users, computers, projects, keys, attachments, groups, threads,
                          sessions, invite_codes, now>>

\* A second passes
Second ==
    /\ now < MaxClock
    /\ now' = now + 1
    /\ UNCHANGED <<users, computers, projects, keys, attachments, groups, threads,
                   sessions, invite_codes, clients, last>>

InitRateLimit ==
    /\ users = {}
    /\ projects = {}
    /\ groups = {}
    /\ computers = {}
    /\ keys = {}
    /\ attachments = {}
    /\ threads = << >>
    /\ sessions = {}
    /\ invite_codes = {}
    /\ now = 0
    /\ clients = [a \in Addresses |-> << >>]
    /\ last = NoRequestSeen

NextRateLimit ==
    \/ Dispatch
    \/ Second

SpecRateLimit == InitRateLimit /\ [][NextRateLimit]_vars

\* The forwarded requests of an address to limited paths that arrived from time
\* from to time to
ForwardedWithin(address, from, to) ==
    {i \in DOMAIN last.log[address] :
        from <= last.log[address][i] /\ last.log[address][i] <= to}

\* No window of length Period holds more than Calls forwarded requests of one
\* address.
WindowBound ==
    \A address \in Addresses, from \in 0..MaxClock :
        Cardinality(ForwardedWithin(address, from, from + Period)) <= Calls

\* A refused request leaves no arrival time behind, and it is refused only when
\* Calls forwarded requests lie in the window that ends now: refusals do not count.
RefusalNotRecorded ==
    (last.op = "dispatch" /\ last.status = 429) =>
        /\ ~last.forwarded
        /\ clients[last.client_id] = popleft_old(last.pre[last.client_id], last.at)
        /\ \A a \in Addresses \ {last.client_id} : clients[a] = last.pre[a]
        /\ Cardinality(ForwardedWithin(last.client_id, last.at - Period, last.at)) = Calls

\* A request to a path that is not limited is forwarded and leaves the deques alone.
UnlimitedPathPasses ==
    (last.op = "dispatch" /\ last.path \notin limited_endpoints) =>
        last.forwarded /\ last.status = 200 /\ clients = last.pre

\* C30: per address, no window of length period holds more than calls forwarded
\* requests to limited paths; a request answered 429 is not recorded and does not
\* delay re-admission; requests to other paths are always forwarded, never counted.
C30_RateLimit ==
    /\ WindowBound
    /\ RefusalNotRecorded
    /\ UnlimitedPathPasses

\* A request refused, and then one of the same address admitted as soon as the
\* oldest forwarded request has left the window
C30_WitnessRefused == last.op = "dispatch" /\ last.status = 429

C30_WitnessReadmitted ==
    /\ last.op = "dispatch"
    /\ last.forwarded
    /\ last.path \in limited_endpoints
    /\ Len(last.log[last.client_id]) > Calls
    /\ Len(last.pre[last.client_id]) = Calls

C30_WitnessUnlimitedWhileFull ==
    /\ last.op = "dispatch"
    /\ last.path \notin limited_endpoints
    /\ Len(last.pre[last.client_id]) = Calls

====
